---- MODULE Spec2Model ----
(***************************************************************************)
(* A model of the dispatch and orchestration layer of pyclaw:              *)
(*   - AgentRunner.run and the ConversationStore        (SpecAgent)        *)
(*   - Gateway: inbound pump, semaphore, reply enqueue  (SpecGateway)      *)
(*   - LocalTools path resolution                       (SpecPath)         *)
(*   - CronService tick loop and management API         (SpecCron)         *)
(* Every subsystem has its own variables; a specification of one subsystem *)
(* leaves the variables of the others at their initial values.             *)
(***************************************************************************)
EXTENDS Integers, Sequences, FiniteSets, TLC

VARIABLES
    \* ---- AgentRunner / ConversationStore
    conv,        \* ConversationStore._store: session -> [summary, messages]
    run,         \* one record per call of AgentRunner.run (a coroutine)
    dialect,     \* cfg.provider.type: "openai" or "anthropic"
    stopHooks,   \* whether cfg.hooks.stop holds a command (run_stop suspends)
    compactLog   \* history: what the last _maybe_compact call saw and left

agentVars == <<conv, run, dialect, stopHooks, compactLog>>

VARIABLES
    \* ---- Gateway / MessageBus
    inbound,          \* MessageBus.inbound: the queued InboundMessages
    outbound,         \* MessageBus.outbound: the queued OutboundMessages
    handler,          \* one _handle_message task per dequeued message
    sem,              \* Gateway._sem: the permits left
    maxConcurrency,   \* cfg.agent.maxConcurrency
    stopped,          \* Gateway._stop_event is set and shutdown has cancelled the tasks
    published,        \* history: the messages published so far, in order
    replies           \* history: the OutboundMessages each handler has enqueued

gwVars == <<inbound, outbound, handler, sem, maxConcurrency, stopped, published, replies>>

VARIABLES
    \* ---- LocalTools
    workspace,            \* LocalTools.workspace, as configured (not resolved)
    restrictToWorkspace,  \* cfg.tools.restrictToWorkspace
    lastOp                \* history: the last LocalTools.execute call and what it touched

pathVars == <<workspace, restrictToWorkspace, lastOp>>

VARIABLES
    \* ---- CronService
    jobs,        \* CronService.jobs: the list of job objects (object ids)
    job,         \* the CronJob objects, by object id
    store,       \* the job list last written to store_path by _save
    on_job,      \* whether CronService.on_job is set
    clock,       \* time.time() in milliseconds
    start_time,  \* CronService._start_time in milliseconds
    tick,        \* the position of _tick_loop
    fires        \* history: the handler invocations

cronVars == <<jobs, job, store, on_job, clock, start_time, tick, fires>>

VARIABLES
    \* ---- ToolRegistry / HookManager / MCPManager
    hooks,       \* cfg.hooks: whether preToolUse / postToolUse hold a command
    mcp,         \* ToolRegistry._mcp: none, or the MCPManager after start()
    toolCall     \* the tool call of the tool loop that is being executed

toolVars == <<hooks, mcp, toolCall>>

VARIABLES
    \* ---- channel adapters (channels/)
    allow_from,   \* BaseChannel.allow_from: the configured allow-list
    tz_offset,    \* the UTC offset of the host's local time zone, in seconds
    posted,       \* history: the InboundMessages the adapters have put on bus.inbound
    lastReq       \* history: the last Slack request and how it was answered

chanVars == <<allow_from, tz_offset, posted, lastReq>>

VARIABLES
    \* ---- message bus subscriptions (bus.py)
    subs,         \* MessageBus._subs: channel name -> the callbacks registered, in order
    raising,      \* the callbacks whose call raises an Exception
    delivered     \* history: per dequeued outbound message, the callbacks invoked

busVars == <<subs, raising, delivered>>

VARIABLES
    \* ---- model runtime (runtime.py)
    provider,     \* Runtime.provider: the provider type and its base URL
    client_openai,\* Runtime._client_openai: none, or the client and its base URL
    rtCall        \* history: the last Runtime entry point called and how it ended

rtVars == <<provider, client_openai, rtCall>>

VARIABLES
    \* ---- web UI channel (channels/webui.py)
    clients,      \* WebUIChannel._clients: client id -> its connection, 0 for none
    next_id,      \* WebUIChannel._next_id
    conns,        \* the connections opened so far: their client id and whether they are open
    handed,       \* history: the numbers of the synthetic ids handed out
    webOp         \* history: the last connection attempt or send and its result

webVars == <<clients, next_id, conns, handed, webOp>>

VARIABLES
    \* ---- one child tool server (tools/mcp.py, MCPServer)
    mcpServer,    \* MCPServer: _next_id, _pending, _lock, the child's pipes, the reader task
    mcpCallers    \* the tasks inside _request: position, request id, completions so far

mcpVars == <<mcpServer, mcpCallers>>

VARIABLES
    \* ---- the result of one tools/call (tools/mcp.py, MCPServer.call_tool)
    mcpReply      \* history: the child's answer to a tools/call, the future's result, the text returned

mcpCallVars == <<mcpReply>>

VARIABLES
    \* ---- telegram long polling (channels/telegram.py)
    tg,           \* TelegramChannel: _running, the poll task's position, _offset, the batch being handled
    tgServer,     \* updates the Bot API holds: records [id, kind]
    tgTaken,      \* ids of the updates the loop has taken up for handling
    tgPublished   \* ids of the updates put on the inbound queue, in order

tgVars == <<tg, tgServer, tgTaken, tgPublished>>

VARIABLES
    \* ---- feishu tenant token (channels/feishu.py)
    feishu,       \* FeishuClient: _token, _token_exp, the holder of _lock, requests sent, real expiry
    fsCallers,    \* position and result of each get_token call
    fsClock       \* datetime.utcnow(), in seconds

fsVars == <<feishu, fsCallers, fsClock>>

vars == <<agentVars, gwVars, pathVars, cronVars, toolVars, chanVars, busVars, rtVars, webVars, mcpVars, mcpCallVars, tgVars, fsVars>>

\* the variables an action of one component leaves alone
nonAgentVars == <<gwVars, pathVars, cronVars, toolVars, chanVars, busVars, rtVars, webVars, mcpVars, mcpCallVars, tgVars, fsVars>>
nonGwVars == <<agentVars, pathVars, cronVars, toolVars, chanVars, busVars, rtVars, webVars, mcpVars, mcpCallVars, tgVars, fsVars>>
nonPathVars == <<agentVars, gwVars, cronVars, toolVars, chanVars, busVars, rtVars, webVars, mcpVars, mcpCallVars, tgVars, fsVars>>
nonCronVars == <<agentVars, gwVars, pathVars, toolVars, chanVars, busVars, rtVars, webVars, mcpVars, mcpCallVars, tgVars, fsVars>>
nonToolVars == <<agentVars, gwVars, pathVars, cronVars, chanVars, busVars, rtVars, webVars, mcpVars, mcpCallVars, tgVars, fsVars>>
nonChanVars == <<agentVars, gwVars, pathVars, cronVars, toolVars, busVars, rtVars, webVars, mcpVars, mcpCallVars, tgVars, fsVars>>
nonBusVars == <<agentVars, gwVars, pathVars, cronVars, toolVars, chanVars, rtVars, webVars, mcpVars, mcpCallVars, tgVars, fsVars>>

\* the values a subsystem keeps while another one is being explored
AgentQuiet ==
    /\ conv = <<>>
    /\ run = <<>>
    /\ dialect = "openai"
    /\ stopHooks = FALSE
    /\ compactLog = <<>>

GatewayQuiet ==
    /\ inbound = <<>>
    /\ outbound = <<>>
    /\ handler = <<>>
    /\ sem = 0
    /\ maxConcurrency = 0
    /\ stopped = FALSE
    /\ published = <<>>
    /\ replies = <<>>

PathQuiet ==
    /\ workspace = <<>>
    /\ restrictToWorkspace = TRUE
    /\ lastOp = <<>>

CronQuiet ==
    /\ jobs = <<>>
    /\ job = <<>>
    /\ store = <<>>
    /\ on_job = FALSE
    /\ clock = 0
    /\ start_time = 0
    /\ tick = <<>>
    /\ fires = <<>>

ToolsQuiet ==
    /\ hooks = <<>>
    /\ mcp = <<>>
    /\ toolCall = <<>>

ChannelsQuiet ==
    /\ allow_from = {}
    /\ tz_offset = 0
    /\ posted = <<>>
    /\ lastReq = <<>>

BusQuiet ==
    /\ subs = <<>>
    /\ raising = {}
    /\ delivered = <<>>

RuntimeQuiet ==
    /\ provider = <<>>
    /\ client_openai = <<>>
    /\ rtCall = <<>>

WebUIQuiet ==
    /\ clients = <<>>
    /\ next_id = 0
    /\ conns = <<>>
    /\ handed = {}
    /\ webOp = <<>>

McpServerQuiet ==
    /\ mcpServer = <<>>
    /\ mcpCallers = <<>>

McpCallQuiet ==
    /\ mcpReply = <<>>

TelegramQuiet ==
    /\ tg = <<>>
    /\ tgServer = {}
    /\ tgTaken = {}
    /\ tgPublished = <<>>

FeishuQuiet ==
    /\ feishu = <<>>
    /\ fsCallers = <<>>
    /\ fsClock = 0

Max(a, b) == IF a >= b THEN a ELSE b
Min(a, b) == IF a <= b THEN a ELSE b

Last(s) == s[Len(s)]

(***************************************************************************)
(* Bounds of the model and configuration values.                           *)
(***************************************************************************)
NRuns == 2                  \* calls of AgentRunner.run in one behaviour
maxToolIterations == 2      \* cfg.agent.maxToolIterations of the modelled config
maxTokens == 1024           \* cfg.agent.maxTokens
preserveCount == 5          \* cfg.autoCompact.preserveCount
ThresholdNum == 8           \* cfg.autoCompact.threshold = 0.8 = 8 / 10
ThresholdDen == 10
MinMaxChars == 2000         \* the floor of max_chars in should_compact

Runs == 1..NRuns
\* the session key ignores the chat id
session_key_channel_only(msg) == msg.channel \o ":"

\* InboundMessage.session_key: f"{self.channel}:{self.chat_id}"
session_key(msg) == msg.channel \o ":" \o msg.chat_id

\* the channel names the channel classes put into InboundMessage.channel
ChannelNames == {"telegram", "slack", "feishu", "webui"}
\* chat ids come from the platform or the client and are arbitrary strings
ChatIdSamples == {"", "1", "2", "1:2", ":1"}
InboundKeys == [channel : ChannelNames, chat_id : ChatIdSamples]

\* the session keys run is called with: one chat of one channel
\* (gateway.py, line 120) and the fixed key of cron jobs and heartbeats
\* (gateway.py, lines 130 and 142)
Sessions == {session_key([channel |-> "telegram", chat_id |-> "1"]), "system"}
Fallback == "Sorry, I reached the maximum tool iterations."

(***************************************************************************)
(* Texts are tokens; TextLen gives the number of characters a token       *)
(* stands for (len(str(content)) in should_compact).                       *)
(***************************************************************************)
TextLen(t) ==
    CASE t = "" -> 0
      [] t = "hi" -> 2
      [] t = "long" -> 7000
      [] t = "result" -> 6
      [] t = "summary" -> 7
      [] OTHER -> 45

Prompts == {"hi", "long"}
ModelTexts == {"hi"}              \* non-empty, already stripped by the runtime
SummaryTexts == {"", "summary"}
ToolResults == {"result"}

\* tool calls as the model returns them; "" stands for a missing or empty field
CallA == [name |-> "read_file", id |-> "a"]
CallB == [name |-> "exec", id |-> "b"]
CallNoName == [name |-> "", id |-> "c"]
CallNoId == [name |-> "read_file", id |-> ""]
\* the (text, tool_calls) pairs a tool-aware model call can return with tool calls
ToolCallResponses ==
    { <<"hi", <<CallA, CallB>>>>, <<"", <<CallA, CallNoName>>>>, <<"", <<CallNoId>>>> }

(***************************************************************************)
(* Conversation (conversation.py).  A turn is a record; a turn whose       *)
(* content is a list of blocks has rich = TRUE and keeps them in blocks.   *)
(***************************************************************************)
Turn(role, content) ==
    [role |-> role, rich |-> FALSE, content |-> content, blocks |-> <<>>,
     tool_calls |-> <<>>, tool_call_id |-> "", name |-> ""]

RichTurn(role, blocks) ==
    [role |-> role, rich |-> TRUE, content |-> "", blocks |-> blocks,
     tool_calls |-> <<>>, tool_call_id |-> "", name |-> ""]

TextBlock(text) == [type |-> "text", text |-> text, id |-> "", name |-> ""]
ToolUseBlock(call) == [type |-> "tool_use", text |-> "", id |-> call.id, name |-> call.name]
ToolResultBlock(id, text) == [type |-> "tool_result", text |-> text, id |-> id, name |-> ""]

add_user(msgs, content) == Append(msgs, Turn("user", content))

add_assistant(msgs, content) == Append(msgs, Turn("assistant", content))

add_assistant_tool_calls(msgs, content, tool_calls) ==
    Append(msgs, [Turn("assistant", content) EXCEPT !.tool_calls = tool_calls])

add_tool(msgs, tool_call_id, name, content) ==
    Append(msgs, [Turn("tool", content) EXCEPT !.tool_call_id = tool_call_id, !.name = name])

add_anthropic_tool_use(msgs, content_blocks) ==
    Append(msgs, RichTurn("assistant", content_blocks))

add_anthropic_tool_result(msgs, tool_use_id, content) ==
    Append(msgs, RichTurn("user", <<ToolResultBlock(tool_use_id, content)>>))

EmptyConversation == [summary |-> "", messages |-> <<>>]

(***************************************************************************)
(* ConversationStore.should_compact and compact_messages.                  *)
(***************************************************************************)
RECURSIVE BlocksLen(_)
BlocksLen(blocks) ==
    IF blocks = <<>> THEN 0
    ELSE 40 + TextLen(Head(blocks).text) + BlocksLen(Tail(blocks))

\* len(str(m.get("content", "")))
ContentLen(m) == IF m.rich THEN 2 + BlocksLen(m.blocks) ELSE TextLen(m.content)

RECURSIVE SumContentLen(_)
SumContentLen(msgs) ==
    IF msgs = <<>> THEN 0 ELSE ContentLen(Head(msgs)) + SumContentLen(Tail(msgs))

autoCompactEnabled == TRUE

should_compact(c) ==
    LET estimate_chars == SumContentLen(c.messages) + TextLen(c.summary)
        max_chars == Max(MinMaxChars, maxTokens * 4 * 2)
    IN  /\ autoCompactEnabled
        /\ estimate_chars * ThresholdDen >= ThresholdNum * max_chars

CompactKeep == Max(preserveCount, 1)

\* compact_messages retaining one turn too many (conv.messages[-(keep + 1):])
compact_messages_off_by_one(msgs) ==
    LET keep == CompactKeep IN
    IF Len(msgs) <= keep
    THEN [old |-> <<>>, messages |-> msgs]
    ELSE [old |-> SubSeq(msgs, 1, Len(msgs) - keep - 1),
          messages |-> SubSeq(msgs, Len(msgs) - keep, Len(msgs))]

\* the pair (returned prefix, retained conv.messages)
compact_messages(msgs) ==
    LET keep == CompactKeep IN
    IF Len(msgs) <= keep
    THEN [old |-> <<>>, messages |-> msgs]
    ELSE [old |-> SubSeq(msgs, 1, Len(msgs) - keep),
          messages |-> SubSeq(msgs, Len(msgs) - keep + 1, Len(msgs))]

(***************************************************************************)
(* AgentRunner.run (agent.py).  Each call is a coroutine; an action is the *)
(* code between two suspension points (awaits that reach the network, a    *)
(* subprocess or a child server).  run called without content blocks.      *)
(* ToolRegistry.list_definitions always holds the four local tools, so the *)
(* "if not defs" branch is never taken.                                    *)
(***************************************************************************)
IdleRun == [pc |-> "idle", session |-> "", iter |-> 0, calls |-> <<>>, result |-> ""]

\* the "continue" of the tool loop for a call that is not executed
Skipped(call) ==
    IF dialect = "anthropic" THEN call.name = "" \/ call.id = ""
    ELSE call.name = ""

RECURSIVE SkipCalls(_)
SkipCalls(calls) ==
    IF calls = <<>> THEN <<>>
    ELSE IF Skipped(Head(calls)) THEN SkipCalls(Tail(calls))
    ELSE calls

\* run_stop, then return: suspends only when a stop hook is configured
Finish(rec, text) ==
    [rec EXCEPT !.pc = IF stopHooks THEN "stop_hook" ELSE "returned",
                !.result = text, !.calls = <<>>]

NextIteration_unbounded(rec) ==
    [rec EXCEPT !.pc = "model", !.iter = @ + 1, !.calls = <<>>]

\* end of one pass of "for _ in range(max(1, maxToolIterations))"
NextIteration(rec) ==
    IF rec.iter < Max(1, maxToolIterations)
    THEN [rec EXCEPT !.pc = "model", !.iter = @ + 1, !.calls = <<>>]
    ELSE Finish(rec, Fallback)

\* conv.add_user(prompt); await self._maybe_compact(conv); first model call
RunStart(r, s, m) ==
    /\ run[r].pc = "idle"
    /\ IF r = 1 THEN TRUE ELSE run[r - 1].pc # "idle"
    /\ LET c1 == [conv[s] EXCEPT !.messages = add_user(@, m)]
           cm == compact_messages(c1.messages)
       IN  IF should_compact(c1)
           THEN /\ conv' = [conv EXCEPT ![s] = [c1 EXCEPT !.messages = cm.messages]]
                /\ run' = [run EXCEPT ![r] =
                       [IdleRun EXCEPT !.session = s,
                                       !.pc = IF cm.old = <<>> THEN "model" ELSE "summarize",
                                       !.iter = IF cm.old = <<>> THEN 1 ELSE 0]]
                /\ compactLog' = [should |-> TRUE, before |-> Len(c1.messages),
                                  after |-> Len(cm.messages)]
           ELSE /\ conv' = [conv EXCEPT ![s] = c1]
                /\ run' = [run EXCEPT ![r] =
                       [IdleRun EXCEPT !.session = s, !.pc = "model", !.iter = 1]]
                /\ compactLog' = [should |-> FALSE, before |-> Len(c1.messages),
                                  after |-> Len(c1.messages)]
    /\ UNCHANGED <<dialect, stopHooks, nonAgentVars>>

\* summary, _ = await self.runtime.run(req); conv.summary = summary.strip()
Summarized(r, summary) ==
    /\ run[r].pc = "summarize"
    /\ conv' = [conv EXCEPT ![run[r].session].summary = summary]
    /\ run' = [run EXCEPT ![r].pc = "model", ![r].iter = 1]
    /\ UNCHANGED <<dialect, stopHooks, compactLog, nonAgentVars>>

\* the runtime raises (transport or parse error): run propagates it
RuntimeRaises(r) ==
    /\ run[r].pc \in {"summarize", "model"}
    /\ run' = [run EXCEPT ![r].pc = "raised"]
    /\ UNCHANGED <<conv, dialect, stopHooks, compactLog, nonAgentVars>>

RECURSIVE ToolUseBlocks(_)
ToolUseBlocks(calls) ==
    IF calls = <<>> THEN <<>>
    ELSE <<ToolUseBlock(Head(calls))>> \o ToolUseBlocks(Tail(calls))

\* the model answers with tool calls: record the assistant turn, then run the
\* "for call in tool_calls" loop up to the first awaited tool execution
ModelToolCalls(r, text, tool_calls) ==
    /\ run[r].pc = "model"
    /\ tool_calls # <<>>
    /\ LET s == run[r].session
           content_blocks == (IF text # "" THEN <<TextBlock(text)>> ELSE <<>>)
                                 \o ToolUseBlocks(tool_calls)
           pending == SkipCalls(tool_calls)
       IN  /\ conv' = [conv EXCEPT ![s].messages =
                          IF dialect = "anthropic"
                          THEN add_anthropic_tool_use(@, content_blocks)
                          ELSE add_assistant_tool_calls(@, text, tool_calls)]
           /\ run' = [run EXCEPT ![r] =
                  IF pending = <<>> THEN NextIteration(run[r])
                  ELSE [run[r] EXCEPT !.pc = "tool", !.calls = pending]]
    /\ UNCHANGED <<dialect, stopHooks, compactLog, nonAgentVars>>

\* result = await self._tools.execute(name, args); record it; go on with the loop
ToolDone(r, result) ==
    /\ run[r].pc = "tool"
    /\ LET s == run[r].session
           call == Head(run[r].calls)
           pending == SkipCalls(Tail(run[r].calls))
       IN  /\ conv' = [conv EXCEPT ![s].messages =
                          IF dialect = "anthropic"
                          THEN add_anthropic_tool_result(@, call.id, result)
                          ELSE add_tool(@, call.id, call.name, result)]
           /\ run' = [run EXCEPT ![r] =
                  IF pending = <<>> THEN NextIteration(run[r])
                  ELSE [run[r] EXCEPT !.calls = pending]]
    /\ UNCHANGED <<dialect, stopHooks, compactLog, nonAgentVars>>

\* the model answers with text only: conv.add_assistant(text); run_stop; return text
ModelText(r, text) ==
    /\ run[r].pc = "model"
    /\ text # ""
    /\ conv' = [conv EXCEPT ![run[r].session].messages = add_assistant(@, text)]
    /\ run' = [run EXCEPT ![r] = Finish(run[r], text)]
    /\ UNCHANGED <<dialect, stopHooks, compactLog, nonAgentVars>>

\* neither tool calls nor text: the loop goes to its next pass
ModelEmpty(r) ==
    /\ run[r].pc = "model"
    /\ run' = [run EXCEPT ![r] = NextIteration(run[r])]
    /\ UNCHANGED <<conv, dialect, stopHooks, compactLog, nonAgentVars>>

\* await self._hooks.run_stop(...) completes; return
StopHookDone(r) ==
    /\ run[r].pc = "stop_hook"
    /\ run' = [run EXCEPT ![r].pc = "returned"]
    /\ UNCHANGED <<conv, dialect, stopHooks, compactLog, nonAgentVars>>

InitAgent ==
    /\ conv = [s \in Sessions |-> EmptyConversation]
    /\ run = [r \in Runs |-> IdleRun]
    /\ dialect \in {"openai", "anthropic"}
    /\ stopHooks \in BOOLEAN
    /\ compactLog = [should |-> FALSE, before |-> 0, after |-> 0]
    /\ GatewayQuiet
    /\ PathQuiet
    /\ CronQuiet
    /\ ToolsQuiet
    /\ ChannelsQuiet
    /\ BusQuiet
    /\ RuntimeQuiet
    /\ WebUIQuiet
    /\ McpServerQuiet
    /\ McpCallQuiet
    /\ TelegramQuiet
    /\ FeishuQuiet

NextAgent ==
    \/ \E r \in Runs, s \in Sessions, m \in Prompts : RunStart(r, s, m)
    \/ \E r \in Runs, t \in SummaryTexts : Summarized(r, t)
    \/ \E r \in Runs : RuntimeRaises(r)
    \/ \E r \in Runs, resp \in ToolCallResponses : ModelToolCalls(r, resp[1], resp[2])
    \/ \E r \in Runs, t \in ToolResults : ToolDone(r, t)
    \/ \E r \in Runs, t \in ModelTexts : ModelText(r, t)
    \/ \E r \in Runs : ModelEmpty(r)
    \/ \E r \in Runs : StopHookDone(r)

SpecAgent == InitAgent /\ [][NextAgent]_vars

(***************************************************************************)
(* Tool-call pairing of a transcript, in either dialect.                   *)
(***************************************************************************)
RECURSIVE BlockIds(_, _)
BlockIds(blocks, type) ==
    IF blocks = <<>> THEN <<>>
    ELSE (IF Head(blocks).type = type THEN <<Head(blocks).id>> ELSE <<>>)
             \o BlockIds(Tail(blocks), type)

RECURSIVE CallListIds(_)
CallListIds(calls) ==
    IF calls = <<>> THEN <<>> ELSE <<Head(calls).id>> \o CallListIds(Tail(calls))

\* the ids of the tool calls an assistant turn carries
CallIds(m) ==
    IF m.role # "assistant" THEN <<>>
    ELSE IF m.rich THEN BlockIds(m.blocks, "tool_use")
    ELSE CallListIds(m.tool_calls)

\* the ids of the tool-result entries a turn holds
ResultIds(m) ==
    IF m.role = "tool" THEN <<m.tool_call_id>>
    ELSE IF m.role = "user" /\ m.rich THEN BlockIds(m.blocks, "tool_result")
    ELSE <<>>

\* the result ids from turn i on, up to the next assistant turn
RECURSIVE ResultsFrom(_, _)
ResultsFrom(msgs, i) ==
    IF i > Len(msgs) \/ msgs[i].role = "assistant" THEN <<>>
    ELSE ResultIds(msgs[i]) \o ResultsFrom(msgs, i + 1)

Paired(msgs) ==
    \A i \in 1..Len(msgs) :
        CallIds(msgs[i]) # <<>> => ResultsFrom(msgs, i + 1) = CallIds(msgs[i])

InToolLoop(s) == \E r \in Runs : run[r].session = s /\ run[r].pc = "tool"

\* C1: whenever no run of a session is between the tool executions of one
\* iteration, every assistant turn of that session carrying K tool calls is
\* followed, before the next assistant turn, by exactly K tool-result entries
\* with the ids of the calls in call order.
C1_ToolCallsPaired ==
    \A s \in Sessions : ~InToolLoop(s) => Paired(conv[s].messages)

\* C2: when run(s, m) returns, the last turn of the conversation of s is an
\* assistant turn holding the returned text, or the returned value is the
\* fallback string.
ReturnsNow(r) == run[r].pc # "returned" /\ run'[r].pc = "returned"

EndsWithAssistant(msgs, text) ==
    /\ msgs # <<>>
    /\ Last(msgs).role = "assistant"
    /\ ~Last(msgs).rich
    /\ Last(msgs).content = text

C2_ReturnEndsInAssistantOrFallback ==
    [][\A r \in Runs :
          ReturnsNow(r) =>
              \/ EndsWithAssistant(conv'[run'[r].session].messages, run'[r].result)
              \/ run'[r].result = Fallback]_vars

\* C3 (as stated): when should_compact holds for the conversation that
\* _maybe_compact inspects, compact_messages leaves exactly
\* max(preserveCount, 1) turns.
C3_CompactLeavesExactlyKeep ==
    compactLog.should => compactLog.after = Max(preserveCount, 1)

\* C3 (amended): when should_compact holds, compact_messages leaves
\* min(number of turns before the call, max(preserveCount, 1)) turns.
C3_CompactLeavesMinKeep ==
    compactLog.should =>
        compactLog.after = Min(compactLog.before, Max(preserveCount, 1))

\* a compaction that found more than max(preserveCount, 1) turns and cut
C3_Witness ==
    /\ compactLog.should
    /\ compactLog.before > Max(preserveCount, 1)
    /\ \E r \in Runs : run[r].pc = "summarize"

(***************************************************************************)
(* Gateway (gateway.py) and the queues of MessageBus (bus.py).             *)
(* A handler task runs AgentRunner.run for one inbound message; here the   *)
(* run is followed through its awaits on a child tool server (the only     *)
(* await of the run without a timeout) up to its return or its exception.  *)
(***************************************************************************)
NMsgs == 3              \* inbound messages in one behaviour
BufferSize == 2         \* MessageBus(buffer_size) of the modelled gateway
MaxConcurrencyCfg == 2  \* the largest cfg.agent.maxConcurrency explored
MaxMcpCalls == 1        \* awaited child-server calls followed in one run

Msgs == 1..NMsgs
InboundKinds ==
    { [channel |-> "telegram", chat_id |-> "1"], [channel |-> "slack", chat_id |-> "2"] }
AgentTexts == {"hi"}    \* what agent.run returns: a model text (or the iteration fallback)
ErrorReply == "Sorry, I encountered an error processing your message."

OutboundMessage(channel, chat_id, content) ==
    [channel |-> channel, chat_id |-> chat_id, content |-> content]

NoTask == [pc |-> "none", outcome |-> "", result |-> "", iter |-> 0]

Inside(h) == handler[h].pc \in {"run", "mcp", "put"}

\* a channel adapter: await self.bus.inbound.put(msg)
Publish(msg) ==
    /\ ~stopped
    /\ Len(published) < NMsgs
    /\ Len(inbound) < BufferSize
    /\ published' = Append(published, msg)
    /\ inbound' = Append(inbound, Len(published) + 1)
    /\ UNCHANGED <<outbound, handler, sem, maxConcurrency, stopped, replies, nonGwVars>>

\* _process_loop: msg = await self.bus.inbound.get(); create_task(_handle_message(msg))
Pump ==
    /\ ~stopped
    /\ inbound # <<>>
    /\ inbound' = Tail(inbound)
    /\ handler' = [handler EXCEPT ![Head(inbound)].pc = "wait_sem"]
    /\ UNCHANGED <<outbound, sem, maxConcurrency, stopped, published, replies, nonGwVars>>

\* async with self._sem, without waiting for a permit
Acquire_no_wait(h) ==
    /\ handler[h].pc = "wait_sem"
    /\ sem' = sem - 1
    /\ handler' = [handler EXCEPT ![h].pc = "run"]
    /\ UNCHANGED <<inbound, outbound, maxConcurrency, stopped, published, replies, nonGwVars>>

\* async with self._sem: take a permit, enter self.agent.run(...)
Acquire(h) ==
    /\ handler[h].pc = "wait_sem"
    /\ sem > 0
    /\ sem' = sem - 1
    /\ handler' = [handler EXCEPT ![h].pc = "run"]
    /\ UNCHANGED <<inbound, outbound, maxConcurrency, stopped, published, replies, nonGwVars>>

\* inside agent.run: a tool call is delegated to a child tool server and awaited
AgentCallsMcp(h) ==
    /\ handler[h].pc = "run"
    /\ handler[h].iter < MaxMcpCalls
    /\ handler' = [handler EXCEPT ![h].pc = "mcp", ![h].iter = @ + 1]
    /\ UNCHANGED <<inbound, outbound, sem, maxConcurrency, stopped, published, replies, nonGwVars>>

\* the child answers: the reader task completes the pending future
McpAnswers(h) ==
    /\ handler[h].pc = "mcp"
    /\ handler' = [handler EXCEPT ![h].pc = "run"]
    /\ UNCHANGED <<inbound, outbound, sem, maxConcurrency, stopped, published, replies, nonGwVars>>

\* result = await self.agent.run(...) returns a text or the iteration fallback
AgentReturns(h, text) ==
    /\ handler[h].pc = "run"
    /\ handler' = [handler EXCEPT ![h].pc = "put", ![h].outcome = "returned",
                                    ![h].result = text, ![h].iter = 0]
    /\ UNCHANGED <<inbound, outbound, sem, maxConcurrency, stopped, published, replies, nonGwVars>>

\* except Exception: result = "Sorry, I encountered an error ..."
AgentRaises(h) ==
    /\ handler[h].pc = "run"
    /\ handler' = [handler EXCEPT ![h].pc = "put", ![h].outcome = "raised",
                                    ![h].result = ErrorReply, ![h].iter = 0]
    /\ UNCHANGED <<inbound, outbound, sem, maxConcurrency, stopped, published, replies, nonGwVars>>

\* the reply is enqueued without waiting for room in the queue
Put_no_wait(h) ==
    /\ handler[h].pc = "put"
    /\ LET out == OutboundMessage(published[h].channel, published[h].chat_id,
                                  handler[h].result)
       IN  /\ outbound' = Append(outbound, out)
           /\ replies' = [replies EXCEPT ![h] = Append(@, out)]
    /\ sem' = sem + 1
    /\ handler' = [handler EXCEPT ![h].pc = "done"]
    /\ UNCHANGED <<inbound, maxConcurrency, stopped, published, nonGwVars>>

\* if result: await self.bus.outbound.put(OutboundMessage(...)); leave the semaphore
Put(h) ==
    /\ handler[h].pc = "put"
    /\ LET out == OutboundMessage(published[h].channel, published[h].chat_id,
                                  handler[h].result)
       IN  IF handler[h].result # ""
           THEN /\ Len(outbound) < BufferSize
                /\ outbound' = Append(outbound, out)
                /\ replies' = [replies EXCEPT ![h] = Append(@, out)]
           ELSE UNCHANGED <<outbound, replies>>
    /\ sem' = sem + 1
    /\ handler' = [handler EXCEPT ![h].pc = "done"]
    /\ UNCHANGED <<inbound, maxConcurrency, stopped, published, nonGwVars>>

\* dispatch_outbound: msg = await self.outbound.get(); the callbacks of its channel
Dispatch ==
    /\ ~stopped
    /\ outbound # <<>>
    /\ outbound' = Tail(outbound)
    /\ UNCHANGED <<inbound, handler, sem, maxConcurrency, stopped, published, replies, nonGwVars>>

\* shutdown: set the stop event, cancel every task; a cancelled handler leaves
\* "async with self._sem" and gives its permit back
Shutdown ==
    /\ ~stopped
    /\ stopped' = TRUE
    /\ sem' = sem + Cardinality({h \in Msgs : Inside(h)})
    /\ handler' = [h \in Msgs |->
                      IF handler[h].pc \in {"none", "done"} THEN handler[h]
                      ELSE [handler[h] EXCEPT !.pc = "cancelled", !.iter = 0]]
    /\ UNCHANGED <<inbound, outbound, maxConcurrency, published, replies, nonGwVars>>

InitGateway ==
    /\ inbound = <<>>
    /\ outbound = <<>>
    /\ handler = [h \in Msgs |-> NoTask]
    /\ maxConcurrency \in 0..MaxConcurrencyCfg
    /\ sem = Max(1, maxConcurrency)
    /\ stopped = FALSE
    /\ published = <<>>
    /\ replies = [h \in Msgs |-> <<>>]
    /\ AgentQuiet
    /\ PathQuiet
    /\ CronQuiet
    /\ ToolsQuiet
    /\ ChannelsQuiet
    /\ BusQuiet
    /\ RuntimeQuiet
    /\ WebUIQuiet
    /\ McpServerQuiet
    /\ McpCallQuiet
    /\ TelegramQuiet
    /\ FeishuQuiet

AgentStep(h) ==
    \/ AgentCallsMcp(h)
    \/ \E t \in AgentTexts : AgentReturns(h, t)
    \/ AgentRaises(h)

NextGateway ==
    \/ \E msg \in InboundKinds : Publish(msg)
    \/ Pump
    \/ \E h \in Msgs : Acquire(h)
    \/ \E h \in Msgs : AgentCallsMcp(h)
    \/ \E h \in Msgs : McpAnswers(h)
    \/ \E h \in Msgs, t \in AgentTexts : AgentReturns(h, t)
    \/ \E h \in Msgs : AgentRaises(h)
    \/ \E h \in Msgs : Put(h)
    \/ Dispatch
    \/ Shutdown

SpecGateway == InitGateway /\ [][NextGateway]_vars

\* The scheduling the event loop guarantees: every runnable task is resumed,
\* semaphore and queue waiters are served first-come first-served.  Nothing
\* obliges a child tool server to answer, a channel to publish or the gateway
\* to shut down.
FairGateway ==
    /\ WF_vars(Pump)
    /\ WF_vars(Dispatch)
    /\ \A h \in Msgs : SF_vars(Acquire(h))
    /\ \A h \in Msgs : WF_vars(AgentStep(h))
    /\ \A h \in Msgs : SF_vars(Put(h))

SpecGatewayFair == SpecGateway /\ FairGateway

\* the same with a child tool server that answers every request
SpecGatewayFairMcp == SpecGatewayFair /\ \A h \in Msgs : WF_vars(McpAnswers(h))

\* C4: the handlers that have entered agent.run and not finished enqueueing
\* their reply are at most max(1, maxConcurrency).
C4_AtMostPermitsInside ==
    Cardinality({h \in Msgs : Inside(h)}) <= Max(1, maxConcurrency)

\* all permits taken while another handler waits for one
C4_Witness ==
    /\ Cardinality({h \in Msgs : Inside(h)}) = Max(1, maxConcurrency)
    /\ \E h \in Msgs : handler[h].pc = "wait_sem"

\* C5: for every dequeued message, unless the gateway shuts down, exactly one
\* OutboundMessage is eventually enqueued, with the channel and chat id of the
\* message and the agent's text (the error reply when agent.run raised).
Dequeued(h) == handler[h].pc # "none"

ReplyOf(h) ==
    OutboundMessage(published[h].channel, published[h].chat_id,
                    IF handler[h].outcome = "raised" THEN ErrorReply ELSE handler[h].result)

Replied(h) == IF h <= Len(published) THEN replies[h] = <<ReplyOf(h)>> ELSE FALSE

C5_ExactlyOneReplyEventually ==
    \A h \in Msgs :
        /\ [](Dequeued(h) => <>(stopped \/ Replied(h)))
        /\ [](replies[h] = <<>> \/ Replied(h))

(***************************************************************************)
(* LocalTools (tools/local.py): read_file, write_file, list_dir.           *)
(* A path is a sequence of components below the root; ".." is the parent   *)
(* component.  The file system holds two symbolic links: /w -> /ws (the    *)
(* workspace may be configured through it) and /ws/link -> /etc.           *)
(***************************************************************************)
MaxPathLen == 3     \* components of a path argument

Names == {"ws", "w", "etc", "link", "f", ".."}
SymlinkAt == { <<"w">>, <<"ws", "link">> }
SymlinkTarget(p) == IF p = <<"w">> THEN <<"ws">> ELSE <<"etc">>
Files == { <<"ws", "f">>, <<"etc", "f">> }
Dirs == { <<>>, <<"ws">>, <<"etc">> }
Workspaces == { <<"ws">>, <<"w">> }
PathTools == {"read_file", "write_file", "list_dir"}

PartsUpTo(n) == UNION { [1..k -> Names] : k \in 0..n }
PathArgs == [abs : BOOLEAN, parts : PartsUpTo(MaxPathLen)]

Parent(p) == IF p = <<>> THEN <<>> ELSE SubSeq(p, 1, Len(p) - 1)

IsPrefix(a, b) == Len(a) <= Len(b) /\ SubSeq(b, 1, Len(a)) = a

\* what the operating system reaches from directory cur through the components
\* rest: symbolic links are followed, ".." is the parent of the reached directory
RECURSIVE Walk(_, _)
Walk(cur, rest) ==
    IF rest = <<>> THEN cur
    ELSE LET c == Head(rest)
             n == Append(cur, c)
         IN  IF c = ".." THEN Walk(Parent(cur), Tail(rest))
             ELSE IF n \in SymlinkAt THEN Walk(SymlinkTarget(n), Tail(rest))
             ELSE Walk(n, Tail(rest))

\* Path.resolve() of an absolute path
Resolve(p) == Walk(<<>>, p)

\* os.path.normpath: ".." removed textually, links not followed
RECURSIVE NormFrom(_, _)
NormFrom(cur, rest) ==
    IF rest = <<>> THEN cur
    ELSE IF Head(rest) = ".." THEN NormFrom(Parent(cur), Tail(rest))
    ELSE NormFrom(Append(cur, Head(rest)), Tail(rest))

\* _resolve_path that normalizes textually instead of resolving
resolve_path_normpath(arg) ==
    LET joined == IF arg.abs THEN arg.parts ELSE workspace \o arg.parts
        path == NormFrom(<<>>, joined)
    IN  [ok |-> ~restrictToWorkspace \/ IsPrefix(NormFrom(<<>>, workspace), path),
         path |-> path]

\* LocalTools._resolve_path: ok = FALSE stands for ValueError("path outside workspace")
resolve_path(arg) ==
    LET joined == IF arg.abs THEN arg.parts ELSE workspace \o arg.parts
        path == Resolve(joined)
    IN  [ok |-> ~restrictToWorkspace \/ IsPrefix(Resolve(workspace), path),
         path |-> path]

\* a call of LocalTools.execute that has not run yet
Call(tool, arg) ==
    [tool |-> tool, arg |-> arg, outcome |-> "", effect |-> "none", touched |-> <<>>]

\* LocalTools.execute(name, {"path": arg}) for the three path tools; touched is
\* the file or directory the operating system reaches for the path it is given
LocalExecute ==
    /\ lastOp.outcome = ""
    /\ LET r == resolve_path(lastOp.arg)
           at == Resolve(r.path)
       IN  lastOp' =
             IF ~r.ok
             THEN [lastOp EXCEPT !.outcome = "raised"]
             ELSE [lastOp EXCEPT
                     !.outcome = "returned",
                     !.effect =
                       CASE lastOp.tool = "read_file" ->
                               IF at \in Files THEN "read" ELSE "stat"
                         [] lastOp.tool = "write_file" -> "wrote"
                         [] OTHER ->
                               IF at \in Dirs THEN "listed" ELSE "stat",
                     !.touched = at]
    /\ UNCHANGED <<workspace, restrictToWorkspace, nonPathVars>>

InitPath ==
    /\ workspace \in Workspaces
    /\ restrictToWorkspace \in BOOLEAN
    /\ lastOp \in { Call(tool, arg) : tool \in PathTools, arg \in PathArgs }
    /\ AgentQuiet
    /\ GatewayQuiet
    /\ CronQuiet
    /\ ToolsQuiet
    /\ ChannelsQuiet
    /\ BusQuiet
    /\ RuntimeQuiet
    /\ WebUIQuiet
    /\ McpServerQuiet
    /\ McpCallQuiet
    /\ TelegramQuiet
    /\ FeishuQuiet

NextPath == LocalExecute

SpecPath == InitPath /\ [][NextPath]_vars

\* C6: with restrictToWorkspace set, every call of read_file, write_file or
\* list_dir either touches only a path inside the canonical workspace or
\* fails without reading, writing or listing anything.
C6_PathConfined ==
    (restrictToWorkspace /\ lastOp.outcome # "") =>
        \/ lastOp.outcome = "raised" /\ lastOp.effect = "none"
        \/ lastOp.outcome = "returned" /\ IsPrefix(Resolve(workspace), lastOp.touched)

\* a relative path through the link that leaves the workspace is refused
C6_Witness ==
    /\ restrictToWorkspace
    /\ lastOp.tool = "write_file"
    /\ lastOp.arg = [abs |-> FALSE, parts |-> <<"link", "f">>]
    /\ lastOp.outcome = "raised"

(***************************************************************************)
(* CronService (cron.py).  Times are milliseconds; the job list holds job  *)
(* objects, so two entries may carry the same id.                          *)
(***************************************************************************)
NJobs == 2          \* job objects created in one behaviour
MaxTicks == 3       \* passes of _tick_loop followed
StartMs == 10       \* time.time() when the service is started
MaxElapsedMs == 2   \* how far the clock is followed after the start
CronPeriodMs == 2   \* the distance of the instants of the cron expression

Objs == 1..NJobs
JobIds == {"j1", "j2"}
HandlerErrors == {"boom"}

Schedule(kind, expr, every_ms, at_ms) ==
    [kind |-> kind, expr |-> expr, every_ms |-> every_ms, at_ms |-> at_ms]

Schedules ==
    { Schedule("cron", "grid", 0, 0),
      Schedule("every", "", 2, 0),
      Schedule("at", "", 0, StartMs + 1) }

CronJob(id, schedule, delete_after_run) ==
    [ id |-> id, enabled |-> TRUE,
      kind |-> schedule.kind, expr |-> schedule.expr,
      every_ms |-> schedule.every_ms, at_ms |-> schedule.at_ms,
      delete_after_run |-> delete_after_run,
      last_run_at_ms |-> 0, last_status |-> "", last_error |-> "" ]

\* an object id no job has been created for
NoJob ==
    [ id |-> "", enabled |-> FALSE, kind |-> "", expr |-> "", every_ms |-> 0, at_ms |-> 0,
      delete_after_run |-> FALSE, last_run_at_ms |-> 0, last_status |-> "", last_error |-> "" ]

NewJobs ==
    { CronJob(id, s, d) : id \in JobIds, s \in Schedules, d \in BOOLEAN } \
        { CronJob(id, s, TRUE) : id \in JobIds, s \in {x \in Schedules : x.kind # "at"} }

NoFire == [n |-> 0, now |-> 0]
NoDone == [o |-> 0, n |-> 0, raised |-> FALSE, error |-> ""]

\* croniter(expr, base).get_next(): the first instant of the expression after base
get_next(base) == ((base \div CronPeriodMs) + 1) * CronPeriodMs

\* _cron_due
cron_due(j, now_ms) ==
    IF j.expr = ""
    THEN FALSE
    ELSE LET base == IF j.last_run_at_ms # 0 THEN j.last_run_at_ms ELSE start_time
         IN  now_ms >= get_next(base)

every_due_strict(j, now_ms) == j.every_ms > 0 /\ now_ms > j.last_run_at_ms + j.every_ms

every_due(j, now_ms) == j.every_ms > 0 /\ now_ms >= j.last_run_at_ms + j.every_ms

at_due(j, now_ms) == j.at_ms > 0 /\ now_ms >= j.at_ms

\* the schedule tests of _tick_loop
Due(j, now_ms) ==
    CASE j.kind = "cron" -> cron_due(j, now_ms)
      [] j.kind = "every" -> every_due(j, now_ms)
      [] j.kind = "at" -> at_due(j, now_ms)
      [] OTHER -> FALSE

\* _save: the job list as written to the store
Saved(list, heap) == [i \in 1..Len(list) |-> heap[list[i]]]

RECURSIVE WithoutId(_, _, _)
WithoutId(list, heap, id) ==
    IF list = <<>>
    THEN <<>>
    ELSE IF heap[Head(list)].id = id
         THEN WithoutId(Tail(list), heap, id)
         ELSE <<Head(list)>> \o WithoutId(Tail(list), heap, id)

RECURSIVE FirstWithId(_, _, _)
\* the position of the first job of the list with the id, 0 if there is none
FirstWithId(list, heap, id) ==
    IF list = <<>>
    THEN 0
    ELSE IF heap[Head(list)].id = id
         THEN 1
         ELSE LET i == FirstWithId(Tail(list), heap, id)
              IN  IF i = 0 THEN 0 ELSE i + 1

RemoveAt(list, i) == SubSeq(list, 1, i - 1) \o SubSeq(list, i + 1, Len(list))

LockFree == tick.pc = "sleep"

CronOthersUnchanged == UNCHANGED nonCronVars

\* time passes
ClockAdvance ==
    /\ clock < StartMs + MaxElapsedMs
    /\ clock' = clock + 1
    /\ UNCHANGED <<jobs, job, store, on_job, start_time, tick, fires>>
    /\ CronOthersUnchanged

add_job(j) ==
    /\ LockFree
    /\ \E o \in Objs :
        /\ job[o] = NoJob
        /\ \A p \in Objs : p < o => job[p] # NoJob
        /\ job' = [job EXCEPT ![o] = j]
        /\ jobs' = Append(jobs, o)
    /\ store' = Saved(jobs', job')
    /\ UNCHANGED <<on_job, clock, start_time, tick, fires>>
    /\ CronOthersUnchanged

remove_job(job_id) ==
    /\ LockFree
    /\ FirstWithId(jobs, job, job_id) # 0
    /\ jobs' = RemoveAt(jobs, FirstWithId(jobs, job, job_id))
    /\ store' = Saved(jobs', job)
    /\ UNCHANGED <<job, on_job, clock, start_time, tick, fires>>
    /\ CronOthersUnchanged

\* enable_job without "async with self._lock"
enable_job_no_lock(job_id, enabled) ==
    /\ FirstWithId(jobs, job, job_id) # 0
    /\ LET o == jobs[FirstWithId(jobs, job, job_id)]
       IN  /\ job' = [job EXCEPT ![o].enabled = enabled]
           /\ fires' = [fires EXCEPT ![o] = NoFire]
    /\ store' = Saved(jobs, job')
    /\ UNCHANGED <<jobs, on_job, clock, start_time, tick>>
    /\ CronOthersUnchanged

enable_job(job_id, enabled) ==
    /\ LockFree
    /\ FirstWithId(jobs, job, job_id) # 0
    /\ LET o == jobs[FirstWithId(jobs, job, job_id)]
       IN  /\ job' = [job EXCEPT ![o].enabled = enabled]
           /\ fires' = [fires EXCEPT ![o] = NoFire]
    /\ store' = Saved(jobs, job')
    /\ UNCHANGED <<jobs, on_job, clock, start_time, tick>>
    /\ CronOthersUnchanged

\* one pass of the loop begins: the clock is read, the lock taken, the list copied
TickBegin ==
    /\ tick.pc = "sleep"
    /\ tick.n < MaxTicks
    /\ tick' = [tick EXCEPT !.pc = "scan", !.n = tick.n + 1, !.now_ms = clock, !.scan = jobs]
    /\ UNCHANGED <<jobs, job, store, on_job, clock, start_time, fires>>
    /\ CronOthersUnchanged

\* the loop body for the next job of the copy, up to the await of the handler
ScanJob ==
    /\ tick.pc = "scan"
    /\ tick.scan # <<>>
    /\ LET o == Head(tick.scan)
           j == job[o]
       IN  IF j.enabled /\ Due(j, tick.now_ms)
           THEN /\ job' = IF j.kind = "at" THEN [job EXCEPT ![o].enabled = FALSE] ELSE job
                /\ IF on_job
                   THEN /\ tick' = [tick EXCEPT !.pc = "handler", !.cur = o]
                        /\ fires' = [fires EXCEPT ![o] = [n |-> tick.n, now |-> tick.now_ms]]
                   ELSE /\ tick' = [tick EXCEPT !.scan = Tail(tick.scan)]
                        /\ UNCHANGED fires
           ELSE /\ tick' = [tick EXCEPT !.scan = Tail(tick.scan)]
                /\ UNCHANGED <<job, fires>>
    /\ UNCHANGED <<jobs, store, on_job, clock, start_time>>
    /\ CronOthersUnchanged

run_job_state_keeps_last_run(j, status, error) ==
    [j EXCEPT !.last_status = status, !.last_error = error]

\* _run_job also clears the enabled flag
run_job_state_disables(j, status, error) ==
    [j EXCEPT !.last_status = status, !.last_error = error, !.last_run_at_ms = clock,
              !.enabled = FALSE]

\* the state _run_job leaves in the job once the handler is done
run_job_state(j, status, error) ==
    [j EXCEPT !.last_status = status, !.last_error = error, !.last_run_at_ms = clock]

\* _run_job after the handler: the state, delete_after_run, _save
RunJobDone(status, error) ==
    LET o == tick.cur
    IN  /\ job' = [job EXCEPT ![o] = run_job_state(job[o], status, error)]
        /\ jobs' = IF job[o].delete_after_run THEN WithoutId(jobs, job, job[o].id) ELSE jobs
        /\ store' = Saved(jobs', job')
        /\ tick' = [tick EXCEPT !.pc = "scan", !.cur = 0, !.scan = Tail(tick.scan),
                                !.done = [o |-> o, n |-> tick.n,
                                          raised |-> status = "error", error |-> error]]
        /\ UNCHANGED <<on_job, clock, start_time, fires>>
        /\ CronOthersUnchanged

HandlerReturns ==
    /\ tick.pc = "handler"
    /\ RunJobDone("ok", "")

\* the exception leaves _run_job and ends the loop's task
HandlerRaises_propagates(error) ==
    /\ tick.pc = "handler"
    /\ tick' = [tick EXCEPT !.pc = "crashed",
                            !.done = [o |-> tick.cur, n |-> tick.n, raised |-> TRUE, error |-> error]]
    /\ UNCHANGED <<jobs, job, store, on_job, clock, start_time, fires>>
    /\ CronOthersUnchanged

HandlerRaises(error) ==
    /\ tick.pc = "handler"
    /\ RunJobDone("error", error)

\* the copy is exhausted: the lock is released and the loop sleeps
TickEnd ==
    /\ tick.pc = "scan"
    /\ tick.scan = <<>>
    /\ tick' = [tick EXCEPT !.pc = "sleep"]
    /\ UNCHANGED <<jobs, job, store, on_job, clock, start_time, fires>>
    /\ CronOthersUnchanged

\* start(): the jobs of the store are loaded, none of them run in this life
InitCron ==
    /\ clock = StartMs
    /\ start_time = StartMs
    /\ on_job \in BOOLEAN
    /\ \E k \in 0..NJobs :
        /\ jobs = [i \in 1..k |-> i]
        /\ job \in { f \in [Objs -> NewJobs \cup {NoJob}] :
                        \A o \in Objs : (o <= k) <=> (f[o] # NoJob) }
    /\ store = Saved(jobs, job)
    /\ tick = [pc |-> "sleep", n |-> 0, now_ms |-> 0, scan |-> <<>>, cur |-> 0, done |-> NoDone]
    /\ fires = [o \in Objs |-> NoFire]
    /\ AgentQuiet
    /\ GatewayQuiet
    /\ PathQuiet
    /\ ToolsQuiet
    /\ ChannelsQuiet
    /\ BusQuiet
    /\ RuntimeQuiet
    /\ WebUIQuiet
    /\ McpServerQuiet
    /\ McpCallQuiet
    /\ TelegramQuiet
    /\ FeishuQuiet

NextCron ==
    \/ ClockAdvance
    \/ \E j \in NewJobs : add_job(j)
    \/ \E id \in JobIds : remove_job(id)
    \/ \E id \in JobIds, enabled \in BOOLEAN : enable_job(id, enabled)
    \/ TickBegin
    \/ ScanJob
    \/ HandlerReturns
    \/ \E error \in HandlerErrors : HandlerRaises(error)
    \/ TickEnd

SpecCron == InitCron /\ [][NextCron]_vars

(***************************************************************************)
(* Properties of CronService.                                              *)
(***************************************************************************)
JobsOf(list) == {list[i] : i \in 1..Len(list)}

\* the step is the loop body for job object o
Scans(o) ==
    /\ tick.pc = "scan"
    /\ tick.scan # <<>>
    /\ Head(tick.scan) = o
    /\ tick' # tick

\* the step invokes the handler for job object o
FiresNow(o) ==
    /\ tick.pc = "scan"
    /\ tick'.pc = "handler"
    /\ tick'.cur = o

\* the step is the end of the handler's invocation for job object o
HandlerEnds(o) ==
    /\ tick.pc = "handler"
    /\ tick.cur = o
    /\ tick' # tick

\* C7: with the clock fixed, a job whose handler was invoked by a tick is not
\* invoked again by that tick or by the tick that follows it at the same
\* clock value (no enable_job call on the job in between), for cron, every
\* and at schedules and whether the handler returned or raised.
C7_AtMostOncePerClockValue ==
    [][\A o \in Objs :
          FiresNow(o) =>
              ~ ( /\ fires[o].n > 0
                  /\ fires[o].n >= tick.n - 1
                  /\ fires[o].now = tick.now_ms )]_vars

\* a cron job fired by one tick has been passed over by the next tick at the
\* same clock value, after its handler raised
C7_Witness ==
    /\ tick.pc = "scan"
    /\ tick.scan = <<>>
    /\ \E o \in JobsOf(jobs) :
        /\ job[o].kind = "cron"
        /\ job[o].enabled
        /\ job[o].last_status = "error"
        /\ fires[o].n = tick.n - 1
        /\ fires[o].now = tick.now_ms

\* the tick scans an enabled every job with a positive period
ScansEvery(o) ==
    /\ Scans(o)
    /\ job[o].enabled
    /\ job[o].kind = "every"
    /\ job[o].every_ms > 0

EveryFiredExactlyWhenDue(o) ==
    /\ FiresNow(o) <=> (tick.now_ms >= job[o].last_run_at_ms + job[o].every_ms)
    /\ job[o].last_run_at_ms = 0 => FiresNow(o)

EveryLastRunAfterFiring(o) ==
    (HandlerEnds(o) /\ job[o].kind = "every") => job'[o].last_run_at_ms >= tick.now_ms

\* C8 as stated: an enabled every job with period P > 0 is fired by a tick
\* exactly when the tick's clock value is at least last_run + P (so a job
\* with last_run 0 is fired by the first tick), and after a firing last_run
\* is at least the clock value of that tick.
C8_EveryFiredExactlyWhenDue ==
    [][\A o \in Objs :
          /\ ScansEvery(o) => EveryFiredExactlyWhenDue(o)
          /\ EveryLastRunAfterFiring(o)]_vars

\* C8, with a handler registered: an enabled every job with period P > 0 is
\* fired by a tick exactly when the tick's clock value is at least
\* last_run + P (so a job with last_run 0 is fired by the first tick), and
\* after a firing last_run is at least the clock value of that tick.
C8_EveryFiredExactlyWhenDueWithHandler ==
    [][\A o \in Objs :
          /\ (on_job /\ ScansEvery(o)) => EveryFiredExactlyWhenDue(o)
          /\ EveryLastRunAfterFiring(o)]_vars

\* an every job fired by an earlier tick has been passed over by a later tick
\* whose clock value is below last_run + P
C8_Witness ==
    /\ on_job
    /\ tick.pc = "scan"
    /\ tick.scan = <<>>
    /\ \E o \in JobsOf(jobs) :
        /\ job[o].kind = "every"
        /\ job[o].enabled
        /\ fires[o].n > 0
        /\ fires[o].n < tick.n
        /\ job[o].last_run_at_ms >= fires[o].now
        /\ tick.now_ms > fires[o].now
        /\ tick.now_ms < job[o].last_run_at_ms + job[o].every_ms

\* C9: an enabled at job whose instant has been reached has its handler
\* invoked by the tick and is disabled afterwards; a disabled job's handler
\* is never invoked (so not again, unless enable_job re-enables the job);
\* and a tick never disables a job without invoking its handler.
C9_AtFiredOnceThenDisabled ==
    [][\A o \in Objs :
          /\ ( /\ Scans(o)
               /\ job[o].kind = "at"
               /\ job[o].enabled
               /\ job[o].at_ms > 0
               /\ tick.now_ms >= job[o].at_ms )
             => (FiresNow(o) /\ ~job'[o].enabled)
          /\ FiresNow(o) => job[o].enabled
          /\ (tick.pc # "sleep" /\ job[o].enabled /\ ~job'[o].enabled) => FiresNow(o)]_vars

\* C10: when the handler of a fired job raises, last_status is 'error' and
\* last_error the exception's message (on success 'ok' and ''); last_run is
\* set to the time of completion in both cases; the scan goes on with the
\* rest of the tick's jobs, whose due jobs are still fired; and the loop
\* never ends.
C10_HandlerOutcomeRecorded ==
    [][/\ \A o \in Objs :
            /\ HandlerEnds(o) =>
                  /\ tick'.done.o = o
                  /\ job'[o].last_status = (IF tick'.done.raised THEN "error" ELSE "ok")
                  /\ job'[o].last_error = (IF tick'.done.raised THEN tick'.done.error ELSE "")
                  /\ tick'.done.raised => tick'.done.error \in HandlerErrors
                  /\ job'[o].last_run_at_ms = clock
                  /\ tick'.pc = "scan"
                  /\ tick'.scan = Tail(tick.scan)
            /\ ( /\ Scans(o)
                 /\ on_job
                 /\ tick.done.raised
                 /\ tick.done.n = tick.n
                 /\ job[o].enabled
                 /\ Due(job[o], tick.now_ms) )
               => FiresNow(o)
       /\ tick'.pc # "crashed"]_vars

\* the handler of one job raised and its outcome is recorded, and the handler
\* of another job of the same tick is being awaited
C10_Witness ==
    /\ tick.pc = "handler"
    /\ tick.done.raised
    /\ tick.done.n = tick.n
    /\ tick.done.o # tick.cur
    /\ job[tick.done.o].last_status = "error"
    /\ job[tick.done.o].last_error = "boom"
    /\ job[tick.done.o].last_run_at_ms >= tick.now_ms

(***************************************************************************)
(* The iteration budget of the tool loop (agent.py, lines 143-236).        *)
(***************************************************************************)
\* a step of run r after its start: a model call, a tool execution or a hook returns
RunStep(r) ==
    \/ \E t \in SummaryTexts : Summarized(r, t)
    \/ RuntimeRaises(r)
    \/ \E resp \in ToolCallResponses : ModelToolCalls(r, resp[1], resp[2])
    \/ \E t \in ToolResults : ToolDone(r, t)
    \/ \E t \in ModelTexts : ModelText(r, t)
    \/ ModelEmpty(r)
    \/ StopHookDone(r)

\* more than the tool calls of one answer that can be pending, plus one
RankWidth ==
    LET lens == {Len(resp[2]) : resp \in ToolCallResponses}
    IN  2 + CHOOSE n \in lens : \A m \in lens : m <= n

\* what is left of a run: the passes of the loop, then the calls of the pass
Rank(rec) ==
    LET left == Max(1, maxToolIterations) - rec.iter
    IN  CASE rec.pc = "summarize" -> 1 + (Max(1, maxToolIterations) + 1) * RankWidth
          [] rec.pc = "model" -> 1 + left * RankWidth + (RankWidth - 1)
          [] rec.pc = "tool" -> 1 + left * RankWidth + Len(rec.calls)
          [] rec.pc = "stop_hook" -> 1
          [] OTHER -> 0

InLoop(r) == run[r].pc \in {"model", "tool"}

Ended(r) == run[r].pc \in {"returned", "raised"}

\* the step in which the model answers run r with text only
AnswersText(r) ==
    /\ run[r].pc = "model"
    /\ run'[r].result \in ModelTexts
    /\ conv'[run[r].session].messages =
           add_assistant(conv[run[r].session].messages, run'[r].result)

\* C11: a run issues at most max(1, maxToolIterations) model calls in the
\* tool loop; when the last of them is answered with tool calls or with
\* empty text the run leaves the loop with the fixed fallback string; and
\* the run terminates: as long as it has not ended a step of it is awaited,
\* and every step leaves strictly less to do.
C11_BoundedToolLoop ==
    /\ [](\A r \in Runs :
             /\ run[r].iter <= Max(1, maxToolIterations)
             /\ (run[r].pc # "idle" /\ ~Ended(r)) => ENABLED RunStep(r))
    /\ [][\A r \in Runs :
             /\ (InLoop(r) /\ run'[r].pc = "model" /\ run'[r] # run[r])
                    => run'[r].iter = run[r].iter + 1
             /\ (InLoop(r) /\ ~InLoop(r)' /\ run'[r].pc # "raised" /\ ~AnswersText(r))
                    => /\ run[r].iter = Max(1, maxToolIterations)
                       /\ run'[r].result = Fallback
             /\ (run[r].pc # "idle" /\ run'[r] # run[r])
                    => Rank(run'[r]) < Rank(run[r])]_vars

\* a run that used its whole budget on tool calls has returned the fallback
C11_Witness ==
    \E r \in Runs :
        /\ run[r].pc = "returned"
        /\ run[r].iter = Max(1, maxToolIterations)
        /\ run[r].result = Fallback
        /\ Last(conv[run[r].session].messages).role # "assistant"

(***************************************************************************)
(* ToolRegistry (tools/registry.py), HookManager (hooks.py) and the tool   *)
(* catalog of MCPManager (tools/mcp.py): one tool call of the OpenAI tool  *)
(* loop (agent.py, lines 214-226) from the decoding of its arguments to    *)
(* the recording of its result.                                            *)
(***************************************************************************)
MaxServers == 2     \* configured child tool servers

LocalNames == {"read_file", "write_file", "list_dir", "exec"}
LocalDefinitions == <<"read_file", "write_file", "list_dir", "exec">>

\* the names the model may call, and the tools/list answers of a child server
CalledNames == {"read_file", "search", "nope"}
ServerCatalogs == { <<>>, <<"search">>, <<"read_file">>, <<"search", "">> }
CatalogNames == {"search", "read_file", ""}

\* function.arguments of the call: the JSON text of an object, the JSON text
\* of a list, text that is not JSON, or a value that is not text (null)
ArgumentKinds == {"object", "list", "garbled", "null"}

\* how a hook command ends: exit status 0, another exit status, killed after
\* the timeout, or create_subprocess_shell raising (the environment built
\* from the payload is refused by the system)
HookOutcomes == {"exit0", "nonzero", "timeout", "start_fails"}

ToolErrors == {"boom"}

\* no manager; in _tool_map 0 stands for a name that is not a key
NoMcp ==
    [configured |-> FALSE, tools |-> <<>>,
     tool_map |-> [n \in CatalogNames \cup CalledNames |-> 0]]

RECURSIVE AddTools(_, _, _)
\* the inner loop of MCPManager.start for the tools of one server
AddTools(m, server, tools) ==
    IF tools = <<>>
    THEN m
    ELSE LET name == Head(tools)
             m1 == IF name # ""
                   THEN [m EXCEPT !.tool_map[name] = server,
                                  !.tools = Append(@, [server_name |-> server, name |-> name])]
                   ELSE m
         IN  AddTools(m1, server, Tail(tools))

RECURSIVE StartFrom(_, _, _)
StartFrom(m, catalogs, server) ==
    IF server > Len(catalogs)
    THEN m
    ELSE StartFrom(AddTools(m, server, catalogs[server]), catalogs, server + 1)

\* Gateway.__init__ builds a manager if servers are configured; MCPManager.start
MCPManager(catalogs) ==
    IF catalogs = <<>>
    THEN NoMcp
    ELSE StartFrom([NoMcp EXCEPT !.configured = TRUE], catalogs, 1)

\* ToolRegistry.list_definitions: the names of the catalog sent to the model
list_definitions ==
    LocalDefinitions \o [i \in 1..Len(mcp.tools) |-> mcp.tools[i].name]

execute_inner_mcp_first(name) ==
    IF mcp.configured THEN "mcp"
    ELSE IF name \in LocalNames THEN "local" ELSE "none"

\* ToolRegistry._execute_inner: who runs the call
execute_inner(name) ==
    IF name \in LocalNames THEN "local"
    ELSE IF mcp.configured THEN "mcp" ELSE "none"

IdleCall ==
    [pc |-> "idle", name |-> "", args |-> "", log |-> <<>>, routed |-> "",
     failure |-> "", result |-> "", raised_by |-> ""]

\* the tool loop decodes the arguments and calls ToolRegistry.execute, which
\* runs up to the first await: the pre-hook command, or else the tool
ToolLoopCall(name, arguments) ==
    /\ toolCall.pc = "idle"
    /\ toolCall' =
          IF arguments = "null"
          THEN [toolCall EXCEPT !.pc = "raised", !.name = name, !.raised_by = "decode"]
          ELSE [toolCall EXCEPT !.pc = IF hooks.pre THEN "pre" ELSE "tool",
                                !.name = name,
                                !.args = IF arguments = "list" THEN "list" ELSE "object"]
    /\ UNCHANGED <<hooks, mcp, nonToolVars>>

\* HookManager._run_command for one hook; then on to what follows it
HookDone(at, next, outcome) ==
    /\ toolCall.pc = at
    /\ toolCall' =
          IF outcome = "start_fails"
          THEN [toolCall EXCEPT !.pc = "raised", !.raised_by = "hook"]
          ELSE [toolCall EXCEPT !.pc = next, !.log = Append(@, at)]
    /\ UNCHANGED <<hooks, mcp, nonToolVars>>

PreHookDone(outcome) == HookDone("pre", "tool", outcome)

\* try: result = await self._execute_inner(name, args) / except Exception
ToolDoneOrFailed(failure) ==
    /\ toolCall.pc = "tool"
    /\ LET routed == execute_inner(toolCall.name)
           \* LocalTools.execute reads args.get(...): no such method on a list
           raises == IF routed = "local" /\ toolCall.args = "list"
                     THEN "no attribute get"
                     ELSE IF routed = "none" \/ (routed = "mcp" /\ mcp.tool_map[toolCall.name] = 0)
                          THEN ""
                          ELSE failure
           text == CASE raises # "" -> "error: " \o raises
                     [] routed = "none" -> "unknown tool"
                     [] routed = "mcp" /\ mcp.tool_map[toolCall.name] = 0 -> "tool not found"
                     [] OTHER -> "ok"
       IN  toolCall' = [toolCall EXCEPT !.pc = IF hooks.post THEN "post" ELSE "returned",
                                        !.routed = routed,
                                        !.failure = raises,
                                        !.result = text,
                                        !.log = Append(@, "tool")]
    /\ UNCHANGED <<hooks, mcp, nonToolVars>>

PostHookDone(outcome) == HookDone("post", "returned", outcome)

InitTools ==
    /\ hooks \in [pre : BOOLEAN, post : BOOLEAN]
    /\ \E k \in 0..MaxServers : \E catalogs \in [1..k -> ServerCatalogs] :
          mcp = MCPManager(catalogs)
    /\ toolCall = IdleCall
    /\ AgentQuiet
    /\ GatewayQuiet
    /\ PathQuiet
    /\ CronQuiet
    /\ ChannelsQuiet
    /\ BusQuiet
    /\ RuntimeQuiet
    /\ WebUIQuiet
    /\ McpServerQuiet
    /\ McpCallQuiet
    /\ TelegramQuiet
    /\ FeishuQuiet

NextTools ==
    \/ \E name \in CalledNames, arguments \in ArgumentKinds : ToolLoopCall(name, arguments)
    \/ \E outcome \in HookOutcomes : PreHookDone(outcome)
    \/ \E failure \in ToolErrors \cup {""} : ToolDoneOrFailed(failure)
    \/ \E outcome \in HookOutcomes : PostHookDone(outcome)

SpecTools == InitTools /\ [][NextTools]_vars

(***************************************************************************)
(* Properties of ToolRegistry.                                             *)
(***************************************************************************)
\* C12: a failure of the underlying tool never leaves ToolRegistry.execute
\* as an exception: the call comes back with the text 'error: <message>'
\* and the tool loop records that text as the call's result.
C12_ToolFailureReturnedAsText ==
    toolCall.failure # "" =>
        /\ toolCall.pc # "raised"
        /\ toolCall.result = "error: " \o toolCall.failure

\* what HookManager has run and what the registry has executed, in order,
\* when both lists of hooks hold a command
ExpectedLog ==
    (IF hooks.pre THEN <<"pre">> ELSE <<>>) \o <<"tool">>
        \o (IF hooks.post THEN <<"post">> ELSE <<>>)

\* C13: for every tool execution the pre-hooks run before the tool and the
\* post-hooks after it, also when the tool failed, and no hook outcome
\* keeps the tool from being executed or its result from being returned.
C13_HooksNeverAbortTheCall ==
    /\ toolCall.raised_by # "hook"
    /\ toolCall.pc = "returned" => toolCall.log = ExpectedLog

\* C19: a name of the local catalog is always run by the local tool, never
\* forwarded to the MCP manager, also when a child server offers the same
\* name; a name that is not local goes to the MCP manager when there is one.
C19_LocalNameWins ==
    toolCall.routed # "" =>
        /\ toolCall.name \in LocalNames => toolCall.routed = "local"
        /\ (toolCall.name \notin LocalNames /\ mcp.configured) => toolCall.routed = "mcp"
        /\ toolCall.routed = "mcp" => toolCall.name \notin LocalNames

\* read_file, which a child server offers too, has been run by the local tool
C19_Witness ==
    /\ toolCall.pc = "returned"
    /\ toolCall.name = "read_file"
    /\ mcp.configured
    /\ mcp.tool_map["read_file"] # 0
    /\ toolCall.routed = "local"
    /\ toolCall.result = "ok"

\* C20: the catalog list_definitions returns never holds two definitions
\* with the same name.
C20_CatalogNamesUnique ==
    \A i, k \in 1..Len(list_definitions) :
        list_definitions[i] = list_definitions[k] => i = k

(***************************************************************************)
(* Channel adapters (channels/base.py, telegram.py, feishu.py, slack.py):  *)
(* what an adapter puts on the inbound queue for one event, and the        *)
(* request signature check of the Slack events endpoint.  An HMAC is the   *)
(* tuple of its key and its message: two tags are equal exactly when key   *)
(* and message are.                                                        *)
(***************************************************************************)
MaxPosted == 2      \* inbound messages followed in one behaviour
NowS == 100000      \* the time of the request, in seconds since the epoch
SkewLimitS == 300   \* 60 * 5 in _verify_signature

Senders == {"", "u1", "u2"}
AllowLists == SUBSET {"u1", "u2"}
TzOffsets == {0, 3600, 0 - 3600}
Contents == {"", "hi"}
ChatIds == {"", "c1"}
SigningSecret == "secret"

\* BaseChannel.is_allowed
is_allowed(sender_id) ==
    IF allow_from = {} THEN TRUE ELSE sender_id \in allow_from

InboundMessage(channel, sender_id, chat_id) ==
    [channel |-> channel, sender_id |-> sender_id, chat_id |-> chat_id]

\* await self.bus.inbound.put(inbound)
Post(msg) == posted' = Append(posted, msg)

\* TelegramChannel._handle_message for one update
TelegramUpdate(sender_id, content, chat_id) ==
    /\ Len(posted) < MaxPosted
    /\ IF sender_id = "" \/ ~is_allowed(sender_id) \/ content = "" \/ chat_id = ""
       THEN UNCHANGED posted
       ELSE Post(InboundMessage("telegram", sender_id, chat_id))
    /\ UNCHANGED <<allow_from, tz_offset, lastReq, nonChanVars>>

\* FeishuChannel._handle_webhook for one im.message.receive_v1 event
FeishuEvent(sender, content, chat_id) ==
    /\ Len(posted) < MaxPosted
    /\ IF sender = "" \/ ~is_allowed(sender) \/ content = ""
       THEN UNCHANGED posted
       ELSE Post(InboundMessage("feishu", sender, chat_id))
    /\ UNCHANGED <<allow_from, tz_offset, lastReq, nonChanVars>>

\* the X-Slack-Request-Timestamp header: absent, not a number, or a number
TsHeaders ==
    { [kind |-> "missing", value |-> 0], [kind |-> "word", value |-> 0] }
        \cup { [kind |-> "int", value |-> v] :
                   v \in { NowS, NowS - SkewLimitS, NowS - SkewLimitS - 1,
                           NowS + SkewLimitS, NowS + SkewLimitS + 1, NowS - 3600 } }

\* the request body: a message event, or bytes that are not UTF-8
SlackBodies ==
    { [kind |-> "message", user |-> u, text |-> "hi", channel |-> "c1"] : u \in Senders }
        \cup { [kind |-> "message", user |-> "u1", text |-> "", channel |-> "c1"],
               [kind |-> "not_utf8", user |-> "", text |-> "", channel |-> ""] }

\* 'v0=' + hmac.new(key, 'v0:<ts>:<body>', sha256).hexdigest()
Signature(key, ts, body) == [kind |-> "v0", key |-> key, ts |-> ts, body |-> body]

\* the X-Slack-Signature header: absent, text with a non-ASCII character, or
\* the signature someone made with some key for some timestamp and body
SigHeaders(ts, body) ==
    { [kind |-> "missing", key |-> "", ts |-> ts, body |-> body],
      [kind |-> "non_ascii", key |-> "", ts |-> ts, body |-> body] }
        \cup { Signature(key, ts, b) :
                   key \in {SigningSecret, "other"},
                   b \in {body, [kind |-> "message", user |-> "u2", text |-> "hi", channel |-> "c1"]} }

Abs(x) == IF x >= 0 THEN x ELSE 0 - x

now_utc == NowS

\* int(datetime.utcnow().timestamp()): the naive UTC wall time read as local time
now == NowS - tz_offset

\* SlackChannel._verify_signature: TRUE, FALSE, or "raises"
verify_signature(ts, sig, body) ==
    IF ts.kind = "missing" \/ sig.kind = "missing" THEN "false"
    ELSE IF ts.kind # "int" THEN "false"
    ELSE IF Abs(now - ts.value) > SkewLimitS THEN "false"
    ELSE IF body.kind = "not_utf8" THEN "raises"
    ELSE IF sig.kind = "non_ascii" THEN "raises"
    ELSE IF Signature(SigningSecret, ts, body) = sig THEN "true" ELSE "false"

\* SlackChannel._handle_events for one request
SlackRequest(ts, sig, body) ==
    /\ Len(posted) < MaxPosted
    /\ LET v == verify_signature(ts, sig, body)
           dropped == \/ body.user # "" /\ ~is_allowed(body.user)
                      \/ body.text = ""
                      \/ body.channel = ""
       IN  /\ lastReq' = [ts |-> ts, sig |-> sig, body |-> body,
                          status |-> CASE v = "false" -> 401
                                       [] v = "raises" -> 500
                                       [] OTHER -> 200,
                          enqueued |-> (v = "true" /\ ~dropped)]
           /\ IF v = "true" /\ ~dropped
              THEN Post(InboundMessage("slack", body.user, body.channel))
              ELSE UNCHANGED posted
    /\ UNCHANGED <<allow_from, tz_offset, nonChanVars>>

NoRequest ==
    [ts |-> [kind |-> "missing", value |-> 0],
     sig |-> [kind |-> "missing", key |-> "", ts |-> [kind |-> "missing", value |-> 0],
              body |-> [kind |-> "not_utf8", user |-> "", text |-> "", channel |-> ""]],
     body |-> [kind |-> "not_utf8", user |-> "", text |-> "", channel |-> ""],
     status |-> 0, enqueued |-> FALSE]

InitChannels ==
    /\ allow_from \in AllowLists
    /\ tz_offset \in TzOffsets
    /\ posted = <<>>
    /\ lastReq = NoRequest
    /\ AgentQuiet
    /\ GatewayQuiet
    /\ PathQuiet
    /\ CronQuiet
    /\ ToolsQuiet
    /\ BusQuiet
    /\ RuntimeQuiet
    /\ WebUIQuiet
    /\ McpServerQuiet
    /\ McpCallQuiet
    /\ TelegramQuiet
    /\ FeishuQuiet

NextChannels ==
    \/ \E sender \in Senders, content \in Contents, chat \in ChatIds :
          TelegramUpdate(sender, content, chat)
    \/ \E sender \in Senders, content \in Contents, chat \in ChatIds :
          FeishuEvent(sender, content, chat)
    \/ \E ts \in TsHeaders, body \in SlackBodies : \E sig \in SigHeaders(ts, body) :
          SlackRequest(ts, sig, body)

SpecChannels == InitChannels /\ [][NextChannels]_vars

\* C16: with a non-empty allow-list every message an adapter has put on the
\* inbound queue has a sender that is a member of the list (an event with
\* an empty or missing sender is not published).
C16_PostedSendersAllowed ==
    allow_from # {} =>
        \A i \in 1..Len(posted) : posted[i].sender_id \in allow_from

\* C17: the Slack endpoint accepts a request exactly when its timestamp is
\* at most 300 seconds from the current time and its signature is the HMAC
\* of 'v0:<timestamp>:<body>' under the configured secret; every other
\* request is answered 401 and enqueues nothing.
C17_SlackAcceptsExactlySigned ==
    lastReq.status # 0 =>
        LET fresh == /\ lastReq.ts.kind = "int"
                     /\ Abs(now_utc - lastReq.ts.value) <= SkewLimitS
            signed == lastReq.sig = Signature(SigningSecret, lastReq.ts, lastReq.body)
        IN  IF fresh /\ signed
            THEN lastReq.status = 200
            ELSE lastReq.status = 401 /\ ~lastReq.enqueued

(***************************************************************************)
(* The bounded queues of MessageBus (bus.py, lines 34-36).                 *)
(***************************************************************************)
IsPrefixOf(a, b) == Len(a) <= Len(b) /\ SubSeq(b, 1, Len(a)) = a

\* a queue changes only by an append at its end or by the removal of its head
QueueStep(q, r) == IF Len(r) >= Len(q) THEN IsPrefixOf(q, r) ELSE r = Tail(q)

\* C14: neither queue ever holds more messages than its capacity; a handler
\* that finds the outbound queue full stays suspended in its put; and no
\* published message is lost: the inbound queue holds, in order, exactly the
\* published messages that have not been dequeued, and messages leave either
\* queue only at its head.
C14_QueuesBounded ==
    /\ [](/\ Len(inbound) <= BufferSize
          /\ Len(outbound) <= BufferSize
          /\ inbound = [i \in 1..Len(inbound) |-> Len(published) - Len(inbound) + i]
          /\ \A h \in Msgs :
                (h <= Len(published) - Len(inbound)) <=> (handler[h].pc # "none"))
    /\ [][/\ QueueStep(inbound, inbound')
          /\ QueueStep(outbound, outbound')
          /\ \A h \in Msgs :
                (handler[h].pc = "put" /\ Len(outbound) = BufferSize)
                    => handler'[h].pc \in {"put", "cancelled"}]_vars

\* the outbound queue is full, a handler is suspended in its put, and more
\* messages than one queue can hold have been published
C14_Witness ==
    /\ Len(outbound) = BufferSize
    /\ \E h \in Msgs : handler[h].pc = "put"
    /\ Len(published) > BufferSize

(***************************************************************************)
(* Conversations are partitioned by session key (conversation.py, lines    *)
(* 60-63; agent.py, lines 74-75).                                          *)
(***************************************************************************)
\* the conversation ConversationStore.get hands out for an inbound message
ConversationOf(msg) == session_key(msg)

\* two inbound messages get the same conversation exactly when they agree on
\* channel and chat id
SameConversationIffSameChat ==
    \A a, b \in InboundKeys :
        (ConversationOf(a) = ConversationOf(b))
            <=> (a.channel = b.channel /\ a.chat_id = b.chat_id)

\* C18: a step of a run on session key s changes the turns and the summary of
\* no other session key, nothing but a run changes a conversation, and two
\* inbound messages share a conversation exactly when they agree on channel
\* and chat id.
C18_RunTouchesOnlyItsSession ==
    /\ []SameConversationIffSameChat
    /\ [][/\ \A r \in Runs :
                run'[r] # run[r] =>
                    \A s \in Sessions \ {run'[r].session} : conv'[s] = conv[s]
          /\ conv' # conv => \E r \in Runs : run'[r] # run[r]]_vars

\* a run has written turns into one session while the other session holds
\* the turns of an earlier run, and the two conversations differ
C18_Witness ==
    /\ \A s \in Sessions : conv[s].messages # <<>>
    /\ \E s, t \in Sessions : conv[s] # conv[t]
    /\ \E r \in Runs : run[r].pc = "returned" /\ run[r].session = "system"
    /\ \E r \in Runs : run[r].pc \in {"model", "tool"} /\ run[r].session # "system"

(***************************************************************************)
(* The outbound dispatcher of MessageBus (bus.py, lines 37-55).            *)
(***************************************************************************)
MaxBusMsgs == 3         \* outbound messages put in one behaviour
MaxSubs == 3            \* registrations in one behaviour
NCallbacks == 2         \* distinct callback functions

Callbacks == 1..NCallbacks
\* the channels of outbound messages; nothing subscribes for "webui" here
OutChannels == {"telegram", "slack", "webui"}
SubChannels == {"telegram", "slack"}

nonGwBusVars == <<agentVars, pathVars, cronVars, toolVars, chanVars, rtVars, webVars, mcpVars, mcpCallVars, tgVars, fsVars>>
nonRtVars == <<agentVars, gwVars, pathVars, cronVars, toolVars, chanVars, busVars, webVars, mcpVars, mcpCallVars, tgVars, fsVars>>
nonWebVars == <<agentVars, gwVars, pathVars, cronVars, toolVars, chanVars, busVars, rtVars, mcpVars, mcpCallVars, tgVars, fsVars>>

RECURSIVE SumLen(_, _)
SumLen(f, dom) ==
    IF dom = {} THEN 0
    ELSE LET c == CHOOSE x \in dom : TRUE
         IN  Len(f[c]) + SumLen(f, dom \ {c})

\* self._subs.setdefault(channel, []).append(fn)
subscribe_outbound(channel, fn) ==
    /\ SumLen(subs, OutChannels) < MaxSubs
    /\ subs' = [subs EXCEPT ![channel] = Append(@, fn)]
    /\ UNCHANGED <<raising, delivered, gwVars, nonGwBusVars>>

\* a gateway handler or a cron job: await self.bus.outbound.put(msg)
BusPut(msg) ==
    /\ Len(delivered) + Len(outbound) < MaxBusMsgs
    /\ Len(outbound) < BufferSize
    /\ outbound' = Append(outbound, msg)
    /\ UNCHANGED <<inbound, handler, sem, maxConcurrency, stopped, published, replies,
                   busVars, nonGwBusVars>>

Invocation(channel, i, fn) ==
    [channel |-> channel, index |-> i, fn |-> fn, raised |-> fn \in raising]

\* the loop ends at the first callback that raises
RECURSIVE InvokeAll_stops_at_raise(_, _, _)
InvokeAll_stops_at_raise(channel, callbacks, i) ==
    IF i > Len(callbacks) THEN <<>>
    ELSE IF callbacks[i] \in raising
         THEN <<Invocation(channel, i, callbacks[i])>>
         ELSE <<Invocation(channel, i, callbacks[i])>>
                  \o InvokeAll_stops_at_raise(channel, callbacks, i + 1)

\* for cb in callbacks: try: cb(msg) except Exception: continue
RECURSIVE InvokeAll(_, _, _)
InvokeAll(channel, callbacks, i) ==
    IF i > Len(callbacks) THEN <<>>
    ELSE <<Invocation(channel, i, callbacks[i])>> \o InvokeAll(channel, callbacks, i + 1)

\* one pass of the loop of dispatch_outbound that got a message:
\* callbacks = self._subs.get(msg.channel, []); if not callbacks: continue
dispatch_outbound ==
    /\ ~stopped
    /\ outbound # <<>>
    /\ LET msg == Head(outbound)
           callbacks == subs[msg.channel]
       IN  delivered' = Append(delivered,
               [msg |-> msg,
                invoked |-> IF callbacks = <<>> THEN <<>>
                            ELSE InvokeAll(msg.channel, callbacks, 1)])
    /\ outbound' = Tail(outbound)
    /\ UNCHANGED <<inbound, handler, sem, maxConcurrency, stopped, published, replies,
                   subs, raising, nonGwBusVars>>

\* stop_event.set(): the loop of dispatch_outbound ends
BusStop ==
    /\ ~stopped
    /\ stopped' = TRUE
    /\ UNCHANGED <<inbound, outbound, handler, sem, maxConcurrency, published, replies,
                   busVars, nonGwBusVars>>

InitBus ==
    /\ subs = [c \in OutChannels |-> <<>>]
    /\ raising \in SUBSET Callbacks
    /\ delivered = <<>>
    /\ GatewayQuiet
    /\ AgentQuiet
    /\ PathQuiet
    /\ CronQuiet
    /\ ToolsQuiet
    /\ ChannelsQuiet
    /\ RuntimeQuiet
    /\ WebUIQuiet
    /\ McpServerQuiet
    /\ McpCallQuiet
    /\ TelegramQuiet
    /\ FeishuQuiet

NextBus ==
    \/ \E c \in SubChannels, fn \in Callbacks : subscribe_outbound(c, fn)
    \/ \E c \in OutChannels : BusPut(OutboundMessage(c, "1", "reply"))
    \/ dispatch_outbound
    \/ BusStop

SpecBus == InitBus /\ [][NextBus]_vars

\* the callbacks registered for a channel, each with its place in the list
Registered(channel) ==
    [i \in 1..Len(subs[channel]) |-> [channel |-> channel, index |-> i, fn |-> subs[channel][i]]]

Called(invoked) ==
    [i \in 1..Len(invoked) |->
        [channel |-> invoked[i].channel, index |-> invoked[i].index, fn |-> invoked[i].fn]]

\* C15: the dispatcher handles every dequeued outbound message by calling the
\* callbacks registered for its channel, each once and in registration order,
\* and no others, whether or not some of them raise; a message of a channel
\* without callbacks is dropped; and as long as the stop event is not set the
\* dispatcher goes on to the next queued message.
C15_EveryCallbackOfTheChannel ==
    /\ []((~stopped /\ outbound # <<>>) => ENABLED dispatch_outbound)
    /\ [][(outbound # <<>> /\ outbound' = Tail(outbound)) =>
             /\ Len(delivered') = Len(delivered) + 1
             /\ SubSeq(delivered', 1, Len(delivered)) = delivered
             /\ delivered'[Len(delivered')].msg = Head(outbound)
             /\ Called(delivered'[Len(delivered')].invoked)
                    = Registered(Head(outbound).channel)]_vars

\* a first message had two callbacks of which the first raised, a second one
\* had no callback, and a third one was dispatched to its callback after that
C15_Witness ==
    /\ Len(delivered) = 3
    /\ Len(delivered[1].invoked) = 2
    /\ delivered[1].invoked[1].raised
    /\ delivered[2].invoked = <<>>
    /\ Len(delivered[3].invoked) = 1
    /\ delivered[3].msg.channel # delivered[1].msg.channel

(***************************************************************************)
(* The model runtime (runtime.py).  A URL is a sequence of characters; "a" *)
(* stands for any character other than "/", "v" and "1".                   *)
(***************************************************************************)
MaxUrlLen == 4

UrlChars == {"a", "/", "v", "1"}
RECURSIVE SeqsUpTo(_, _)
SeqsUpTo(S, n) ==
    IF n = 0 THEN {<<>>}
    ELSE LET shorter == SeqsUpTo(S, n - 1)
         IN  shorter \cup {Append(u, c) : u \in shorter, c \in S}
BaseUrls == SeqsUpTo(UrlChars, MaxUrlLen)
ProviderTypes == {"openai", "anthropic", "deepseek", "minimax", "custom"}

\* "https://api.openai.com/v1"; "o" stands for "https://api.openai.com"
DEFAULT_OPENAI_BASE == <<"o", "/", "v", "1">>
V1 == <<"/", "v", "1">>

endswith(u, suffix) ==
    /\ Len(u) >= Len(suffix)
    /\ SubSeq(u, Len(u) - Len(suffix) + 1, Len(u)) = suffix

\* "/v1" is appended whatever the URL ends in
normalize_openai_base_always_appends(base_url) ==
    IF base_url = <<>> THEN DEFAULT_OPENAI_BASE
    ELSE LET stripped == IF endswith(base_url, <<"/">>)
                         THEN SubSeq(base_url, 1, Len(base_url) - 1) ELSE base_url
         IN  stripped \o V1

\* _normalize_openai_base
normalize_openai_base(base_url) ==
    IF base_url = <<>> THEN DEFAULT_OPENAI_BASE
    ELSE LET stripped == IF endswith(base_url, <<"/">>)
                         THEN SubSeq(base_url, 1, Len(base_url) - 1) ELSE base_url
         IN  IF endswith(stripped, V1) THEN stripped ELSE stripped \o V1

NoClient == [made |-> FALSE, base_url |-> <<>>]
\* OpenAICompatClient(base_url=...): self.base_url = _normalize_openai_base(base_url)
OpenAICompatClient(base_url) == [made |-> TRUE, base_url |-> normalize_openai_base(base_url)]
\* x or DEFAULT_OPENAI_BASE
OrDefault(base_url) == IF base_url = <<>> THEN DEFAULT_OPENAI_BASE ELSE base_url

\* if not self._client_openai: self._client_openai = OpenAICompatClient(...)
EnsureClient ==
    IF client_openai.made THEN client_openai
    ELSE OpenAICompatClient(OrDefault(provider.baseUrl))

\* Runtime.run
RuntimeRun ==
    /\ IF provider.type = "anthropic"
       THEN /\ rtCall' = [entry |-> "run", outcome |-> "ok", used |-> <<>>]
            /\ UNCHANGED client_openai
       ELSE IF provider.type \in {"deepseek", "minimax"} /\ provider.baseUrl = <<>>
       THEN /\ rtCall' = [entry |-> "run", outcome |-> "RuntimeError", used |-> <<>>]
            /\ UNCHANGED client_openai
       ELSE /\ client_openai' = EnsureClient
            /\ rtCall' = [entry |-> "run", outcome |-> "ok",
                          used |-> EnsureClient.base_url]
    /\ UNCHANGED <<provider, nonRtVars>>

\* Runtime.openai_with_tools
OpenaiWithTools ==
    /\ client_openai' = EnsureClient
    /\ rtCall' = [entry |-> "openai_with_tools", outcome |-> "ok",
                  used |-> EnsureClient.base_url]
    /\ UNCHANGED <<provider, nonRtVars>>

\* Runtime.openai_doc_context: without documents it returns "", {} at once
OpenaiDocContext(documents) ==
    /\ IF ~documents
       THEN /\ rtCall' = [entry |-> "openai_doc_context", outcome |-> "ok", used |-> <<>>]
            /\ UNCHANGED client_openai
       ELSE /\ client_openai' = EnsureClient
            /\ rtCall' = [entry |-> "openai_doc_context", outcome |-> "ok",
                          used |-> EnsureClient.base_url]
    /\ UNCHANGED <<provider, nonRtVars>>

InitRuntime ==
    /\ provider \in [type : ProviderTypes, baseUrl : BaseUrls]
    /\ client_openai = NoClient
    /\ rtCall = [entry |-> "", outcome |-> "", used |-> <<>>]
    /\ AgentQuiet
    /\ GatewayQuiet
    /\ PathQuiet
    /\ CronQuiet
    /\ ToolsQuiet
    /\ ChannelsQuiet
    /\ BusQuiet
    /\ WebUIQuiet
    /\ McpServerQuiet
    /\ McpCallQuiet
    /\ TelegramQuiet
    /\ FeishuQuiet

NextRuntime ==
    \/ RuntimeRun
    \/ OpenaiWithTools
    \/ \E documents \in BOOLEAN : OpenaiDocContext(documents)

SpecRuntime == InitRuntime /\ [][NextRuntime]_vars

\* C21: with provider type deepseek or minimax and an empty base URL, every
\* call of a Runtime entry point ends in an error, and no client for the
\* default OpenAI base URL exists.
C21_NoDefaultClientForDeepseekMinimax ==
    (provider.type \in {"deepseek", "minimax"} /\ provider.baseUrl = <<>>) =>
        /\ ~client_openai.made
        /\ rtCall.entry # "" => rtCall.outcome = "RuntimeError"

\* C22: for every non-empty base URL the normalized URL ends in "/v1", does
\* not end in "/", and is a fixed point of the normalization; the client
\* built from it holds that URL.
C22_NormalizeEndsInV1AndIsIdempotent ==
    provider.baseUrl # <<>> =>
        LET n == normalize_openai_base(provider.baseUrl)
        IN  /\ endswith(n, V1)
            /\ ~endswith(n, <<"/">>)
            /\ normalize_openai_base(n) = n
            /\ client_openai.made => client_openai.base_url = n

\* a client was built from a base URL that ends in "/v1/", and one from a
\* URL ending in two slashes
C22_Witness ==
    /\ client_openai.made
    /\ \/ endswith(provider.baseUrl, <<"/", "v", "1", "/">>)
       \/ endswith(provider.baseUrl, <<"/", "/">>)
    /\ Len(provider.baseUrl) = MaxUrlLen

(***************************************************************************)
(* The web UI channel (channels/webui.py).  A client id or token is a pair *)
(* <<text, number>>: <<"webui-", n>> is the string "webui-n".              *)
(***************************************************************************)
MaxConns == 3           \* connections opened in one behaviour

NoToken == <<"", 0>>
Synth(n) == <<"webui-", n>>
\* a client may send any token, also one that looks like a synthetic id
Tokens == {NoToken, <<"alice", 0>>, Synth(1)}
ClientIds == (Tokens \ {NoToken}) \cup {Synth(n) : n \in 1..MaxConns}
WebAllowLists == {{}, {<<"alice", 0>>}, {<<"alice", 0>>, Synth(1)}}

nonChanWebVars == <<agentVars, gwVars, pathVars, cronVars, toolVars, busVars, rtVars, mcpVars, mcpCallVars, tgVars, fsVars>>
nonMcpVars == <<agentVars, gwVars, pathVars, cronVars, toolVars, chanVars, busVars, rtVars, webVars, mcpCallVars, tgVars, fsVars>>
nonMcpCallVars == <<agentVars, gwVars, pathVars, cronVars, toolVars, chanVars, busVars, rtVars, webVars, mcpVars, tgVars, fsVars>>
nonTgVars == <<agentVars, gwVars, pathVars, cronVars, toolVars, chanVars, busVars, rtVars, webVars, mcpVars, mcpCallVars, fsVars>>
nonFsVars == <<agentVars, gwVars, pathVars, cronVars, toolVars, chanVars, busVars, rtVars, webVars, mcpVars, mcpCallVars, tgVars>>
chanRest == <<tz_offset, posted, lastReq>>

\* _handle_ws up to the registration of the client
Accepts(token) ==
    IF allow_from # {} /\ token = NoToken THEN FALSE
    ELSE IF allow_from # {} /\ token # NoToken /\ ~is_allowed(token) THEN FALSE
    ELSE TRUE

\* the connection is registered without taking a new number
Connect_no_increment(token) ==
    /\ Len(conns) < MaxConns
    /\ IF Accepts(token)
       THEN LET client_id == IF token # NoToken THEN token ELSE Synth(Max(1, next_id))
            IN  /\ UNCHANGED next_id
                /\ clients' = [clients EXCEPT ![client_id] = Len(conns) + 1]
                /\ conns' = Append(conns, [id |-> client_id, open |-> TRUE])
                /\ handed' = IF token = NoToken THEN handed \cup {Max(1, next_id)} ELSE handed
                /\ webOp' = [op |-> "connect", arg |-> token, accepted |-> TRUE,
                             client_id |-> client_id, receivers |-> {}]
       ELSE /\ conns' = Append(conns, [id |-> NoToken, open |-> FALSE])
            /\ webOp' = [op |-> "connect", arg |-> token, accepted |-> FALSE,
                         client_id |-> NoToken, receivers |-> {}]
            /\ UNCHANGED <<clients, next_id, handed>>
    /\ UNCHANGED <<allow_from, chanRest, nonChanWebVars>>

\* _handle_ws: a closed connection, or self._next_id += 1;
\* client_id = token or f"webui-{self._next_id}"; self._clients[client_id] = ws
Connect(token) ==
    /\ Len(conns) < MaxConns
    /\ IF Accepts(token)
       THEN LET client_id == IF token # NoToken THEN token ELSE Synth(next_id + 1)
            IN  /\ next_id' = next_id + 1
                /\ clients' = [clients EXCEPT ![client_id] = Len(conns) + 1]
                /\ conns' = Append(conns, [id |-> client_id, open |-> TRUE])
                /\ handed' = IF token = NoToken THEN handed \cup {next_id + 1} ELSE handed
                /\ webOp' = [op |-> "connect", arg |-> token, accepted |-> TRUE,
                             client_id |-> client_id, receivers |-> {}]
       ELSE /\ conns' = Append(conns, [id |-> NoToken, open |-> FALSE])
            /\ webOp' = [op |-> "connect", arg |-> token, accepted |-> FALSE,
                         client_id |-> NoToken, receivers |-> {}]
            /\ UNCHANGED <<clients, next_id, handed>>
    /\ UNCHANGED <<allow_from, chanRest, nonChanWebVars>>

\* the socket of connection c ends: self._clients.pop(client_id, None)
Disconnect(c) ==
    /\ c \in 1..Len(conns)
    /\ conns[c].open
    /\ conns' = [conns EXCEPT ![c].open = FALSE]
    /\ clients' = [clients EXCEPT ![conns[c].id] = 0]
    /\ webOp' = [op |-> "disconnect", arg |-> conns[c].id, accepted |-> FALSE,
                 client_id |-> conns[c].id, receivers |-> {}]
    /\ UNCHANGED <<next_id, handed, allow_from, chanRest, nonChanWebVars>>

AllClients == {clients[i] : i \in ClientIds} \ {0}

\* WebUIChannel.send
WebSend(chat_id) ==
    /\ webOp' = [op |-> "send", arg |-> chat_id, accepted |-> FALSE, client_id |-> NoToken,
                 receivers |-> IF chat_id # NoToken /\ clients[chat_id] # 0
                               THEN {clients[chat_id]}
                               ELSE AllClients]
    /\ UNCHANGED <<clients, next_id, conns, handed, allow_from, chanRest, nonChanWebVars>>

InitWebUI ==
    /\ clients = [i \in ClientIds \cup {NoToken} |-> 0]
    /\ next_id = 0
    /\ conns = <<>>
    /\ handed = {}
    /\ webOp = [op |-> "", arg |-> NoToken, accepted |-> FALSE, client_id |-> NoToken,
                receivers |-> {}]
    /\ allow_from \in WebAllowLists
    /\ tz_offset = 0
    /\ posted = <<>>
    /\ lastReq = <<>>
    /\ AgentQuiet
    /\ GatewayQuiet
    /\ PathQuiet
    /\ CronQuiet
    /\ ToolsQuiet
    /\ BusQuiet
    /\ RuntimeQuiet
    /\ McpServerQuiet
    /\ McpCallQuiet
    /\ TelegramQuiet
    /\ FeishuQuiet

NextWebUI ==
    \/ \E token \in Tokens : Connect(token)
    \/ \E c \in 1..MaxConns : Disconnect(c)
    \/ \E chat_id \in ClientIds \cup {NoToken} : WebSend(chat_id)

SpecWebUI == InitWebUI /\ [][NextWebUI]_vars

\* C40: every accepted connection that is still open is registered in the
\* client map under its identifier, and an entry leaves the map or changes
\* only when the client it names disconnects, for any order of connects and
\* disconnects, two connections with the same token included.
C40_OpenClientsStayRegistered ==
    /\ [](\A c \in 1..Len(conns) : conns[c].open => clients[conns[c].id] = c)
    /\ [][\A id \in ClientIds :
             (clients[id] # 0 /\ clients'[id] # clients[id]) =>
                 (conns[clients[id]].open /\ ~conns'[clients[id]].open)]_vars

\* C23: a web-UI message with a non-empty chat id reaches no client other
\* than the one registered under that chat id, also when nobody is registered
\* under it; a message without chat id reaches every client.
C23_AddressedMessageOnlyToItsClient ==
    webOp.op = "send" =>
        IF webOp.arg # NoToken
        THEN webOp.receivers \subseteq ({clients[webOp.arg]} \ {0})
        ELSE webOp.receivers = AllClients

\* C24 as stated: a connection without token is refused when the allow-list
\* is empty; an accepted connection is known by its token or by a synthetic
\* id larger than all earlier ones.
C24_NoTokenClosedWhenAllowListEmpty ==
    webOp.op = "connect" =>
        /\ (webOp.arg = NoToken /\ allow_from = {}) =>
               ~webOp.accepted /\ ~conns[Len(conns)].open
        /\ webOp.accepted =>
               IF webOp.arg # NoToken THEN webOp.client_id = webOp.arg
               ELSE /\ webOp.client_id = Synth(next_id)
                    /\ \A n \in handed \ {next_id} : n < next_id

\* C24 amended: a connection without token is refused when the allow-list is
\* NOT empty, as is one whose token is not on a non-empty allow-list; a
\* refused connection is not registered; an accepted connection is registered
\* under its token or under a synthetic id larger than all earlier ones.
C24_NoTokenClosedWhenAllowListSet ==
    webOp.op = "connect" =>
        /\ webOp.accepted <=> (allow_from = {} \/ webOp.arg \in allow_from)
        /\ ~webOp.accepted =>
               /\ ~conns[Len(conns)].open
               /\ Len(conns) \notin AllClients
        /\ webOp.accepted =>
               /\ clients[webOp.client_id] = Len(conns)
               /\ IF webOp.arg # NoToken THEN webOp.client_id = webOp.arg
                  ELSE /\ webOp.client_id = Synth(next_id)
                       /\ \A n \in handed \ {next_id} : n < next_id

\* a second connection without token was accepted under a fresh synthetic id
\* after an earlier one, with an empty allow-list
C24_Witness ==
    /\ webOp.op = "connect" /\ webOp.accepted /\ webOp.arg = NoToken
    /\ allow_from = {}
    /\ Cardinality(handed) >= 2

(***************************************************************************)
(* CronService started on a store written by an earlier life of the        *)
(* service (cron.py, lines 56-59 and 139-146).                             *)
(***************************************************************************)
\* a last run recorded before this start; a cron instant lies in between
LastLifeMs == StartMs - 3

\* _from_dict: jobs as an earlier life has saved them after running them
RanBefore ==
    { [j EXCEPT !.last_run_at_ms = LastLifeMs, !.last_status = "ok"] :
          j \in {x \in NewJobs : x.kind = "cron"} }

\* start(): self._start_time = time.time(); await self._load()
InitCronRestart ==
    /\ clock = StartMs
    /\ start_time = StartMs
    /\ on_job \in BOOLEAN
    /\ \E k \in 1..NJobs :
        /\ jobs = [i \in 1..k |-> i]
        /\ job \in { f \in [Objs -> NewJobs \cup RanBefore \cup {NoJob}] :
                        /\ \A o \in Objs : (o <= k) <=> (f[o] # NoJob)
                        /\ f[1] \in RanBefore }
    /\ store = Saved(jobs, job)
    /\ tick = [pc |-> "sleep", n |-> 0, now_ms |-> 0, scan |-> <<>>, cur |-> 0, done |-> NoDone]
    /\ fires = [o \in Objs |-> NoFire]
    /\ AgentQuiet
    /\ GatewayQuiet
    /\ PathQuiet
    /\ ToolsQuiet
    /\ ChannelsQuiet
    /\ BusQuiet
    /\ RuntimeQuiet
    /\ WebUIQuiet
    /\ McpServerQuiet
    /\ McpCallQuiet
    /\ TelegramQuiet
    /\ FeishuQuiet

SpecCronRestart == InitCronRestart /\ [][NextCron]_vars

\* C25: when a tick with a registered handler scans an enabled job with a
\* cron expression, the job is fired exactly when the tick's clock value has
\* reached the first cron instant after the later of the job's last run and
\* the service start; so instants between a last run of an earlier life and
\* the start do not fire the job.
C25_CronBaseIsLaterOfLastRunAndStart ==
    [][\A o \in Objs :
          ( /\ Scans(o)
            /\ on_job
            /\ job[o].enabled
            /\ job[o].kind = "cron"
            /\ job[o].expr # "" )
          => (FiresNow(o) <=>
                 tick.now_ms >= get_next(Max(job[o].last_run_at_ms, start_time)))]_vars

(***************************************************************************)
(* The store, the lock and the flags of CronService.                       *)
(***************************************************************************)
\* C26: whenever a tick has ended (the loop sleeps), the persisted store
\* holds exactly the in-memory job list, whatever the tick changed, with or
\* without a handler and whether the handler returned or raised.
C26_StoreMatchesMemoryAfterTick ==
    tick.pc = "sleep" => store = Saved(jobs, job)

\* the step is one of the tick loop (or the passing of time)
TickStep == tick' # tick

\* C27: while a tick holds the lock (scanning, or awaiting a handler) the job
\* list, the jobs and the store change only by steps of that tick; at most
\* one handler is awaited, for the job the scan stands at; every store write
\* writes the job list as it is in memory; and a management call's update is
\* in the store when the call ends.
C27_MutationsUnderTheLock ==
    /\ [](tick.pc = "handler" => (tick.scan # <<>> /\ tick.cur = Head(tick.scan)))
    /\ [][/\ (tick.pc # "sleep" /\ (jobs' # jobs \/ job' # job \/ store' # store))
              => TickStep
          /\ store' # store => store' = Saved(jobs', job')
          /\ (~TickStep /\ (jobs' # jobs \/ job' # job))
              => (tick.pc = "sleep" /\ store' = Saved(jobs', job'))]_vars

\* a handler is awaited by a later tick while the list holds a job that
\* enable_job has disabled
C27_Witness ==
    /\ tick.pc = "handler"
    /\ tick.n >= 2
    /\ \E o \in JobsOf(jobs) : job[o].kind # "at" /\ ~job[o].enabled /\ o # tick.cur

\* C28: when the handler of a job with delete_after_run ends (returning or
\* raising), the job is gone from the job list and from the store and every
\* other job of the list is still in it; and such a job is not fired again.
C28_DeleteAfterRunRemovesOnlyThatJob ==
    [][\A o \in Objs :
          /\ (HandlerEnds(o) /\ job[o].delete_after_run) =>
                /\ o \notin JobsOf(jobs')
                /\ store' = Saved(jobs', job')
                /\ JobsOf(jobs') = JobsOf(jobs) \ {o}
          /\ (FiresNow(o) /\ job[o].delete_after_run) => job[o].last_status = ""]_vars

\* C29: a step of the tick on a cron or every job (the test, the firing, the
\* end of the handler) leaves its enabled flag as it is; the flag of such a
\* job changes only by a management call made while no tick holds the lock;
\* and only enabled jobs are fired.
C29_FiringKeepsEnabledFlag ==
    [][\A o \in Objs :
          /\ (job[o].kind \in {"cron", "every"} /\ job'[o].enabled # job[o].enabled)
                => (~TickStep /\ tick.pc = "sleep")
          /\ FiresNow(o) => job[o].enabled
          /\ (HandlerEnds(o) /\ job[o].kind \in {"cron", "every"})
                => job'[o].enabled = job[o].enabled]_vars

\* the handler of an every job has ended and the job is still enabled, while
\* a cron job of the list is disabled
C29_Witness ==
    /\ tick.done.n > 0
    /\ job[tick.done.o].kind = "every"
    /\ job[tick.done.o].enabled
    /\ job[tick.done.o].last_status # ""
    /\ \E o \in JobsOf(jobs) : job[o].kind = "cron" /\ ~job[o].enabled

(***************************************************************************)
(* One MCPServer and its concurrent callers (tools/mcp.py, lines 18-127).  *)
(***************************************************************************)
NCallers == 2           \* tasks that call _request
MaxRequests == 3        \* requests made in one behaviour
MaxLines == 3           \* lines the child writes in one behaviour

Callers == 1..NCallers
\* what the child writes on its stdout: a response object with an id, a line
\* that is not JSON, or JSON that is not an object (null, 7, true)
ResponseIds == 1..(MaxRequests + 1)
Response(id) == [kind |-> "response", id |-> id]
NotJson == [kind |-> "not_json", id |-> 0]
NotAnObject == [kind |-> "not_an_object", id |-> 0]
ChildLines == {Response(id) : id \in ResponseIds} \cup {NotJson, NotAnObject}

IdleCaller == [pc |-> "idle", id |-> 0, completed |-> 0]

\* _request up to "await self._send(payload)": the lock is taken, the id
\* allocated, the future registered, the line written to the child's stdin
RequestBegin(c) ==
    /\ mcpCallers[c].pc = "idle"
    /\ mcpServer.lock = 0
    /\ mcpServer.next_id <= MaxRequests
    /\ mcpServer' = [mcpServer EXCEPT !.lock = c,
                                      !.next_id = @ + 1,
                                      !.pending = @ \cup {mcpServer.next_id},
                                      !.stdin = Append(@, mcpServer.next_id)]
    /\ mcpCallers' = [mcpCallers EXCEPT ![c].pc = "sending", ![c].id = mcpServer.next_id,
                                        ![c].completed = 0]
    /\ UNCHANGED nonMcpVars

\* drain() returns: the lock is released, the caller awaits its future;
\* with the child gone the write to its stdin raises out of _request
RequestSent(c) ==
    /\ mcpCallers[c].pc = "sending"
    /\ mcpServer' = [mcpServer EXCEPT !.lock = 0]
    /\ mcpCallers' = [mcpCallers EXCEPT ![c].pc =
                         IF mcpServer.child = "exited" THEN "raised"
                         ELSE IF mcpCallers[c].completed > 0 THEN "completed"
                         ELSE "waiting"]
    /\ UNCHANGED nonMcpVars

\* "return await fut" once the future has its result, or the exception of
\* _send reaching the caller
RequestReturns(c) ==
    /\ mcpCallers[c].pc \in {"completed", "raised"}
    /\ mcpCallers' = [mcpCallers EXCEPT ![c].pc = "idle", ![c].id = 0]
    /\ UNCHANGED <<mcpServer, nonMcpVars>>

\* the child writes a line on its stdout
ChildWrites(line) ==
    /\ mcpServer.child = "alive"
    /\ mcpServer.written < MaxLines
    /\ mcpServer' = [mcpServer EXCEPT !.stdout = Append(@, line), !.written = @ + 1]
    /\ UNCHANGED <<mcpCallers, nonMcpVars>>

\* one pass of _read_loop over the next line of the child's stdout
ReadLine ==
    /\ mcpServer.reader = "running"
    /\ mcpServer.stdout # <<>>
    /\ LET line == Head(mcpServer.stdout)
       IN  CASE line.kind = "not_json" ->
                    \* json.loads raises inside the try: continue
                    /\ mcpServer' = [mcpServer EXCEPT !.stdout = Tail(@)]
                    /\ UNCHANGED mcpCallers
             [] line.kind = "not_an_object" ->
                    \* '"id" in msg' raises TypeError outside the try: the task ends
                    /\ mcpServer' = [mcpServer EXCEPT !.stdout = Tail(@), !.reader = "dead"]
                    /\ UNCHANGED mcpCallers
             [] OTHER ->
                    IF line.id \in mcpServer.pending
                    THEN /\ mcpServer' = [mcpServer EXCEPT !.stdout = Tail(@),
                                                          !.pending = @ \ {line.id}]
                         /\ mcpCallers' = [c \in Callers |->
                                IF mcpCallers[c].id = line.id
                                THEN [mcpCallers[c] EXCEPT !.pc = IF @ = "waiting"
                                                                  THEN "completed" ELSE @,
                                                           !.completed = @ + 1]
                                ELSE mcpCallers[c]]
                    ELSE /\ mcpServer' = [mcpServer EXCEPT !.stdout = Tail(@)]
                         /\ UNCHANGED mcpCallers
    /\ UNCHANGED nonMcpVars

InitMcpServer ==
    /\ mcpServer = [next_id |-> 1, pending |-> {}, lock |-> 0, stdin |-> <<>>,
                    stdout |-> <<>>, written |-> 0, reader |-> "running",
                    child |-> "alive"]
    /\ mcpCallers = [c \in Callers |-> IdleCaller]
    /\ AgentQuiet
    /\ GatewayQuiet
    /\ PathQuiet
    /\ CronQuiet
    /\ ToolsQuiet
    /\ ChannelsQuiet
    /\ BusQuiet
    /\ RuntimeQuiet
    /\ WebUIQuiet
    /\ McpCallQuiet
    /\ TelegramQuiet
    /\ FeishuQuiet

NextMcpServer ==
    \/ \E c \in Callers : RequestBegin(c)
    \/ \E c \in Callers : RequestSent(c)
    \/ \E c \in Callers : RequestReturns(c)
    \/ \E line \in ChildLines : ChildWrites(line)
    \/ ReadLine

SpecMcpServer == InitMcpServer /\ [][NextMcpServer]_vars

\* the step hands the response line with this id to the reader
Reads(id) ==
    /\ mcpServer.stdout # <<>>
    /\ Head(mcpServer.stdout) = Response(id)
    /\ mcpServer'.stdout = Tail(mcpServer.stdout)

\* the callers whose future the step completes
CompletedBy == {c \in Callers : mcpCallers'[c].completed > mcpCallers[c].completed}

\* C30: the request ids written to the child's stdin are 1, 2, 3, ... in that
\* order, each belonging to one caller; a response to a pending request is
\* never left unread by a reader that has stopped; a response whose id is
\* pending completes exactly the caller that made the request with that id,
\* once per request; a response with an unknown or already answered id
\* completes no caller.
C30_ResponsesCompleteTheirCaller ==
    /\ [](/\ mcpServer.stdin = [i \in 1..Len(mcpServer.stdin) |-> i]
          /\ mcpServer.next_id = Len(mcpServer.stdin) + 1
          /\ \A c, d \in Callers :
                (c # d /\ mcpCallers[c].id # 0) => mcpCallers[c].id # mcpCallers[d].id
          /\ \A c \in Callers : mcpCallers[c].completed <= 1
          /\ \A i \in 1..Len(mcpServer.stdout) :
                (mcpServer.stdout[i].kind = "response"
                    /\ mcpServer.stdout[i].id \in mcpServer.pending)
                => mcpServer.reader = "running")
    /\ [][\A id \in ResponseIds :
             Reads(id) =>
                 IF id \in mcpServer.pending
                 THEN /\ CompletedBy = {c \in Callers : mcpCallers[c].id = id}
                      /\ Cardinality(CompletedBy) = 1
                      /\ id \notin mcpServer'.pending
                 ELSE CompletedBy = {}]_vars

\* the step hands a line that is not a response object to the reader
ReadsBadLine ==
    /\ mcpServer.stdout # <<>>
    /\ Head(mcpServer.stdout).kind # "response"
    /\ mcpServer'.stdout = Tail(mcpServer.stdout)

\* C31: a line of the child that is not a well-formed response object is
\* discarded: reading it completes no caller, leaves the pending requests as
\* they are and leaves the reader running, so that later responses are read.
C31_BadLinesAreSkipped ==
    /\ [](mcpServer.reader = "running")
    /\ [][ReadsBadLine =>
             /\ mcpCallers' = mcpCallers
             /\ mcpServer'.pending = mcpServer.pending
             /\ mcpServer'.reader = "running"]_vars

(***************************************************************************)
(* The life of the child process (tools/mcp.py, lines 43-50 and 111-117).  *)
(***************************************************************************)
\* the child process exits: its stdout reaches end of file after the lines
\* already written, and _read_loop then sleeps and reads again for ever
ChildExits ==
    /\ mcpServer.child = "alive"
    /\ mcpServer' = [mcpServer EXCEPT !.child = "exited"]
    /\ UNCHANGED <<mcpCallers, nonMcpVars>>

\* stop(): the read task is cancelled and the child killed; _pending is
\* not touched
McpStop ==
    /\ mcpServer.reader # "cancelled"
    /\ mcpServer' = [mcpServer EXCEPT !.reader = "cancelled", !.child = "exited"]
    /\ UNCHANGED <<mcpCallers, nonMcpVars>>

NextMcpLife ==
    \/ NextMcpServer
    \/ ChildExits
    \/ McpStop

\* the event loop runs every task that is ready: the reader with a line to
\* read, a caller whose drain() or future is done.  Nothing obliges the
\* child to write.
FairMcp ==
    /\ WF_vars(ReadLine)
    /\ \A c \in Callers : WF_vars(RequestSent(c)) /\ WF_vars(RequestReturns(c))

SpecMcpLife == InitMcpServer /\ [][NextMcpLife]_vars /\ FairMcp

\* C39: every request that has been sent eventually returns to its caller,
\* with a result or an error, also when the child exits, never answers or
\* the server is stopped meanwhile.
C39_EveryRequestEventuallyReturns ==
    \A c \in Callers :
        (mcpCallers[c].pc = "waiting") ~> (mcpCallers[c].pc # "waiting")

(***************************************************************************)
(* The answer to one tools/call request (tools/mcp.py, lines 65-76 and     *)
(* 122-127).  A text is a sequence of characters: "x" is a visible one,    *)
(* " " and "\n" are white space.                                           *)
(***************************************************************************)
MaxItems == 3           \* items in the content list of a result

ItemTexts == {<<>>, <<"x">>, <<" ">>, <<" ", "x">>}
ContentItems ==
    {[type |-> "text", text |-> t] : t \in ItemTexts} \cup {[type |-> "image", text |-> <<>>]}
ContentLists == SeqsUpTo(ContentItems, MaxItems)
ErrorObjects == {"method failed", "invalid params"}

\* the response objects the child may send for the request
ErrorAnswer(e) == [kind |-> "error", error |-> e, items |-> <<>>, text |-> <<>>]
ListAnswer(items) == [kind |-> "list", error |-> "", items |-> items, text |-> <<>>]
StrAnswer(t) == [kind |-> "str", error |-> "", items |-> <<>>, text |-> t]
OtherAnswer == [kind |-> "other", error |-> "", items |-> <<>>, text |-> <<>>]
NoResultAnswer == [kind |-> "no_result", error |-> "", items |-> <<>>, text |-> <<>>]
ToolAnswers ==
    {ErrorAnswer(e) : e \in ErrorObjects} \cup {ListAnswer(l) : l \in ContentLists}
        \cup {StrAnswer(t) : t \in ItemTexts} \cup {OtherAnswer, NoResultAnswer}

\* _read_loop: {"error": msg["error"]} or msg.get("result") or {}
FutureResult(msg) ==
    CASE msg.kind = "error" -> [has_content |-> FALSE, content |-> msg, error |-> msg.error]
      [] msg.kind = "no_result" -> [has_content |-> FALSE, content |-> msg, error |-> ""]
      [] OTHER -> [has_content |-> TRUE, content |-> msg, error |-> ""]

RECURSIVE TextsOf(_)
\* texts.append(item.get("text", "")) for the items of type "text"
TextsOf(items) ==
    IF items = <<>> THEN <<>>
    ELSE IF Head(items).type = "text"
         THEN <<Head(items).text>> \o TextsOf(Tail(items))
         ELSE TextsOf(Tail(items))

RECURSIVE JoinLines(_)
\* "\n".join(texts)
JoinLines(texts) ==
    IF texts = <<>> THEN <<>>
    ELSE IF Len(texts) = 1 THEN texts[1]
    ELSE texts[1] \o <<"\n">> \o JoinLines(Tail(texts))

IsSpace(c) == c \in {" ", "\n"}

RECURSIVE LStrip(_)
LStrip(t) == IF t # <<>> /\ IsSpace(Head(t)) THEN LStrip(Tail(t)) ELSE t
RECURSIVE RStrip(_)
RStrip(t) == IF t # <<>> /\ IsSpace(t[Len(t)]) THEN RStrip(SubSeq(t, 1, Len(t) - 1)) ELSE t
\* str.strip()
Strip(t) == RStrip(LStrip(t))

\* MCPServer.call_tool after "result = await self._request(...)":
\* content = result.get("content", []); the joined texts of a list, the
\* string itself, or json.dumps(result)
call_tool(result) ==
    IF ~result.has_content THEN Strip(JoinLines(TextsOf(<<>>)))
    ELSE CASE result.content.kind = "list" -> Strip(JoinLines(TextsOf(result.content.items)))
           [] result.content.kind = "str" -> result.content.text
           [] OTHER -> <<"x">>

NoReply == [answered |-> FALSE, msg |-> NoResultAnswer, text |-> <<>>]

\* the child answers the tools/call; ToolRegistry.execute returns call_tool's text
ToolCallAnswered(msg) ==
    /\ mcpReply' = [answered |-> TRUE, msg |-> msg, text |-> call_tool(FutureResult(msg))]
    /\ UNCHANGED nonMcpCallVars

InitMcpCall ==
    /\ mcpReply = NoReply
    /\ AgentQuiet
    /\ GatewayQuiet
    /\ PathQuiet
    /\ CronQuiet
    /\ ToolsQuiet
    /\ ChannelsQuiet
    /\ BusQuiet
    /\ RuntimeQuiet
    /\ WebUIQuiet
    /\ McpServerQuiet
    /\ TelegramQuiet
    /\ FeishuQuiet

NextMcpCall == \E msg \in ToolAnswers : ToolCallAnswered(msg)

SpecMcpCall == InitMcpCall /\ [][NextMcpCall]_vars

\* C32: when the child answers a tools/call with a JSON-RPC error, the text
\* handed to the model is not empty, and differs from the text of a
\* successful call that produced no output.
C32_ErrorAnswerIsVisibleToTheModel ==
    (mcpReply.answered /\ mcpReply.msg.kind = "error") =>
        /\ mcpReply.text # <<>>
        /\ mcpReply.text # call_tool(FutureResult(ListAnswer(<<>>)))

(***************************************************************************)
(* Tool results on the Anthropic dialect (agent.py, lines 179-193).        *)
(***************************************************************************)
\* run r is the only run that has been started
OnlyRun(r) == \A q \in Runs \ {r} : run[q].pc = "idle"

\* the step ends the "for tool_use in tool_calls" loop of run r
ToolLoopEnds(r) == run[r].pc = "tool" /\ run'[r].pc # "tool"

\* C33: on the Anthropic dialect, when a run has executed the calls of an
\* assistant turn with K tool_use blocks, the conversation ends with that
\* assistant turn followed by one user turn holding K tool_result blocks,
\* whose tool_use_ids are the ids of the tool_use blocks in call order.
C33_OneUserTurnWithAllToolResults ==
    [][\A r \in Runs :
          (dialect = "anthropic" /\ OnlyRun(r) /\ ToolLoopEnds(r)) =>
              LET msgs == conv'[run[r].session].messages
                  n == Len(msgs)
              IN  /\ n >= 2
                  /\ msgs[n].role = "user" /\ msgs[n].rich
                  /\ msgs[n - 1].role = "assistant" /\ msgs[n - 1].rich
                  /\ \A i \in 1..Len(msgs[n].blocks) : msgs[n].blocks[i].type = "tool_result"
                  /\ BlockIds(msgs[n].blocks, "tool_result")
                         = BlockIds(msgs[n - 1].blocks, "tool_use")]_vars

(***************************************************************************)
(* Compaction and the transcript sent to the model (agent.py, lines 141    *)
(* and 238-253; conversation.py, lines 73-79).                             *)
(***************************************************************************)
\* the step after which run r awaits a tool-aware model call: conv' of its
\* session is the transcript of the request
SendsTranscript(r) ==
    /\ run'[r].pc = "model"
    /\ run[r].pc # "model" \/ run'[r].iter # run[r].iter

\* every tool-result entry comes after an assistant turn carrying its call
ResultsAnswered(msgs) ==
    \A i \in 1..Len(msgs) :
        \A k \in 1..Len(ResultIds(msgs[i])) :
            \E j \in 1..(i - 1) :
                \E n \in 1..Len(CallIds(msgs[j])) :
                    CallIds(msgs[j])[n] = ResultIds(msgs[i])[k]

\* C37: in every transcript sent to the model, each tool-result entry is
\* preceded by the assistant turn whose tool call it answers.
C37_ResultsFollowTheirCallInTranscript ==
    [][\A r \in Runs :
          SendsTranscript(r) => ResultsAnswered(conv'[run'[r].session].messages)]_vars

\* no other run is under way
OthersDone(r) == \A q \in Runs \ {r} : run[q].pc \in {"idle", "returned", "raised"}

\* the summarization call of run r raises
SummarizationFails(r) == run[r].pc = "summarize" /\ run'[r].pc = "raised"

\* C38: the prefix returned by compact_messages followed by the retained
\* tail is the transcript before the call, and when the summarization call
\* fails the conversation has the turns and the summary it had before the
\* compaction was attempted.
C38_CompactionLosesNoTurn ==
    /\ [](\A s \in Sessions :
             LET cm == compact_messages(conv[s].messages)
             IN  cm.old \o cm.messages = conv[s].messages)
    /\ [][\A r \in Runs :
             (OthersDone(r) /\ SummarizationFails(r)) =>
                 /\ Len(conv'[run[r].session].messages) = compactLog.before
                 /\ conv'[run[r].session].summary = ""]_vars

(***************************************************************************)
(* Telegram long polling (channels/telegram.py).                           *)
(***************************************************************************)
MaxUpdates == 3
MaxBackoffs == 2
UpdateIds == 1..MaxUpdates
\* what an update carries: a text message, no message at all, or a photo
UpdateKinds == {"text", "none", "photo"}
\* how the download of a photo ends: a content block, no block (a status of
\* 400 or more), or an exception of the HTTP client
DownloadOutcomes == {"block", "no_block", "raises"}

\* line 59: the offset after taking up the update with this id
advance_offset_no_max(offset, update_id) == update_id + 1
advance_offset(offset, update_id) == Max(offset, update_id + 1)

\* start(): the poll task is created
TgStart ==
    /\ tg.pc = "idle"
    /\ tg' = [tg EXCEPT !.running = TRUE, !.pc = "poll"]
    /\ UNCHANGED <<tgServer, tgTaken, tgPublished, nonTgVars>>

\* a user sends something to the bot: the Bot API holds one more update
TgArrive(id, kind) ==
    /\ \A u \in tgServer : u.id # id
    /\ tgServer' = tgServer \cup {[id |-> id, kind |-> kind]}
    /\ UNCHANGED <<tg, tgTaken, tgPublished, nonTgVars>>

\* getUpdates answers with the updates whose id is at least the offset, in
\* any order
Batches ==
    {b \in SeqsUpTo({u \in tgServer : u.id >= tg.offset}, MaxUpdates) :
        \A i, j \in 1..Len(b) : i # j => b[i] # b[j]}

\* _get_updates returns a non-empty batch
TgGetUpdates(batch) ==
    /\ tg.running /\ tg.pc = "poll"
    /\ batch # <<>>
    /\ tg' = [tg EXCEPT !.pc = "batch", !.batch = batch]
    /\ UNCHANGED <<tgServer, tgTaken, tgPublished, nonTgVars>>

\* _get_updates raises (status of 400 or more, network error): sleep(2)
TgGetUpdatesFails ==
    /\ tg.running /\ tg.pc = "poll"
    /\ tg.backoffs < MaxBackoffs
    /\ tg' = [tg EXCEPT !.pc = "sleep", !.backoffs = @ + 1]
    /\ UNCHANGED <<tgServer, tgTaken, tgPublished, nonTgVars>>

\* the sleep is over: continue
TgBackoffDone ==
    /\ tg.pc = "sleep"
    /\ tg' = [tg EXCEPT !.pc = "poll"]
    /\ UNCHANGED <<tgServer, tgTaken, tgPublished, nonTgVars>>

\* one pass of the for loop: the offset moves, then the message is handled
TgHandle(outcome) ==
    /\ tg.pc = "batch"
    /\ LET update == Head(tg.batch)
           rest == Tail(tg.batch)
           offset == advance_offset(tg.offset, update.id)
           raises == update.kind = "photo" /\ outcome = "raises"
           publishes == \/ update.kind = "text"
                        \/ update.kind = "photo" /\ outcome = "block"
       IN  /\ tgTaken' = tgTaken \cup {update.id}
           /\ tgPublished' = IF publishes THEN Append(tgPublished, update.id)
                             ELSE tgPublished
           /\ tg' = IF raises
                    THEN [tg EXCEPT !.offset = offset, !.pc = "dead", !.batch = <<>>]
                    ELSE [tg EXCEPT !.offset = offset, !.batch = rest,
                                    !.pc = IF rest = <<>> THEN "poll" ELSE "batch"]
    /\ UNCHANGED <<tgServer, nonTgVars>>

\* stop(): the task is cancelled
TgStop ==
    /\ tg.running
    /\ tg' = [tg EXCEPT !.running = FALSE, !.pc = "stopped", !.batch = <<>>]
    /\ UNCHANGED <<tgServer, tgTaken, tgPublished, nonTgVars>>

InitTelegram ==
    /\ tg = [running |-> FALSE, pc |-> "idle", offset |-> 0, batch |-> <<>>, backoffs |-> 0]
    /\ tgServer = {}
    /\ tgTaken = {}
    /\ tgPublished = <<>>
    /\ AgentQuiet
    /\ GatewayQuiet
    /\ PathQuiet
    /\ CronQuiet
    /\ ToolsQuiet
    /\ ChannelsQuiet
    /\ BusQuiet
    /\ RuntimeQuiet
    /\ WebUIQuiet
    /\ McpServerQuiet
    /\ McpCallQuiet
    /\ FeishuQuiet

NextTelegram ==
    \/ TgStart
    \/ \E id \in UpdateIds, kind \in UpdateKinds : TgArrive(id, kind)
    \/ \E batch \in Batches : TgGetUpdates(batch)
    \/ TgGetUpdatesFails
    \/ TgBackoffDone
    \/ \E outcome \in DownloadOutcomes : TgHandle(outcome)
    \/ TgStop

SpecTelegram == InitTelegram /\ [][NextTelegram]_vars

\* C34: while the adapter is running its poll loop has not ended, whatever
\* error the fetch or the handling of an update met.
C34_PollLoopNeverEnds == tg.running => tg.pc # "dead"

\* the batch just received
Received == IF tg.pc = "poll" /\ tg'.pc = "batch" THEN tg'.batch ELSE <<>>

\* C35: the offset never decreases, it is greater than the id of every
\* update taken up for handling, no update taken up is requested again, and
\* no update is published to the inbound queue twice.
C35_OffsetMonotoneNoUpdateTwice ==
    /\ [](/\ \A id \in tgTaken : tg.offset > id
          /\ \A i, j \in 1..Len(tgPublished) : i # j => tgPublished[i] # tgPublished[j])
    /\ [][/\ tg'.offset >= tg.offset
          /\ \A i \in 1..Len(Received) : Received[i].id \notin tgTaken]_vars

\* a batch in descending id order is being handled after a retry, and an
\* update has been published
C35_Witness ==
    /\ tg.pc = "batch"
    /\ Head(tg.batch).id + 1 < tg.offset
    /\ tg.backoffs >= 1
    /\ tgPublished # <<>>

(***************************************************************************)
(* Feishu tenant access token (channels/feishu.py, FeishuClient).          *)
(***************************************************************************)
NFsCallers == 2
MaxFsClock == 120
ClockStepS == 15
MaxTokenRequests == 2
RefreshMarginS == 60
FsCallers == 1..NFsCallers
\* 'expire' values the token endpoint reports, in seconds
Lifetimes == {90, 120, 150}
NoExp == 0 - 1

\* lines 31 and 35: the cached token may be used
TokenFresh == feishu.token # 0 /\ feishu.token_exp # NoExp /\ fsClock < feishu.token_exp

\* line 50: the cached expiry of a token that lives 'expires' seconds
token_exp_of(utcnow, expires) == utcnow + Max(expires - RefreshMarginS, RefreshMarginS)

IdleFsCaller == [pc |-> "idle", token |-> 0, left |-> 0]
ReturnCached == [pc |-> "returned", token |-> feishu.token, left |-> feishu.real_exp - fsClock]

\* lines 34-42 from the acquisition of the lock to the await of the POST
LockedPart(c) ==
    IF TokenFresh
    THEN /\ fsCallers' = [fsCallers EXCEPT ![c] = ReturnCached]
         /\ UNCHANGED feishu
    ELSE /\ feishu.requests < MaxTokenRequests
         /\ feishu' = [feishu EXCEPT !.lock = c, !.requests = @ + 1]
         /\ fsCallers' = [fsCallers EXCEPT ![c].pc = "fetching"]

\* get_token up to its first await: the fast path, or on to the lock
GetTokenBegin(c) ==
    /\ fsCallers[c].pc = "idle"
    /\ fsCallers' = [fsCallers EXCEPT ![c] =
                        IF TokenFresh THEN ReturnCached
                        ELSE [IdleFsCaller EXCEPT !.pc = "lock"]]
    /\ UNCHANGED <<feishu, fsClock, nonFsVars>>

\* async with self._lock: the lock is free
GetTokenLocked(c) ==
    /\ fsCallers[c].pc = "lock"
    /\ feishu.lock = 0
    /\ LockedPart(c)
    /\ UNCHANGED <<fsClock, nonFsVars>>

\* the endpoint answers with a token that lives 'expires' seconds
TokenAnswered(c, expires) ==
    /\ fsCallers[c].pc = "fetching"
    /\ feishu' = [feishu EXCEPT !.token = feishu.requests,
                                !.token_exp = token_exp_of(fsClock, expires),
                                !.real_exp = fsClock + expires,
                                !.lock = 0]
    /\ fsCallers' = [fsCallers EXCEPT ![c] =
                        [pc |-> "returned", token |-> feishu.requests, left |-> expires]]
    /\ UNCHANGED <<fsClock, nonFsVars>>

\* lines 43-47: the endpoint answers with an error, get_token raises
TokenRefused(c) ==
    /\ fsCallers[c].pc = "fetching"
    /\ feishu' = [feishu EXCEPT !.lock = 0]
    /\ fsCallers' = [fsCallers EXCEPT ![c] = [IdleFsCaller EXCEPT !.pc = "raised"]]
    /\ UNCHANGED <<fsClock, nonFsVars>>

\* the caller goes on and may call again
GetTokenDone(c) ==
    /\ fsCallers[c].pc \in {"returned", "raised"}
    /\ fsCallers' = [fsCallers EXCEPT ![c] = IdleFsCaller]
    /\ UNCHANGED <<feishu, fsClock, nonFsVars>>

\* time passes
FsTick ==
    /\ fsClock < MaxFsClock
    /\ fsClock' = fsClock + ClockStepS
    /\ UNCHANGED <<feishu, fsCallers, nonFsVars>>

InitFeishu ==
    /\ feishu = [token |-> 0, token_exp |-> NoExp, real_exp |-> 0, lock |-> 0, requests |-> 0]
    /\ fsCallers = [c \in FsCallers |-> IdleFsCaller]
    /\ fsClock = 0
    /\ AgentQuiet
    /\ GatewayQuiet
    /\ PathQuiet
    /\ CronQuiet
    /\ ToolsQuiet
    /\ ChannelsQuiet
    /\ BusQuiet
    /\ RuntimeQuiet
    /\ WebUIQuiet
    /\ McpServerQuiet
    /\ McpCallQuiet
    /\ TelegramQuiet

NextFeishu ==
    \/ \E c \in FsCallers : GetTokenBegin(c)
    \/ \E c \in FsCallers : GetTokenLocked(c)
    \/ \E c \in FsCallers, expires \in Lifetimes : TokenAnswered(c, expires)
    \/ \E c \in FsCallers : TokenRefused(c)
    \/ \E c \in FsCallers : GetTokenDone(c)
    \/ FsTick

SpecFeishu == InitFeishu /\ [][NextFeishu]_vars

\* C36: a token returned by get_token has at least 60 seconds left before
\* it expires, whatever lifetime the endpoint reported, and a refresh
\* request is sent only while the cached token is stale and no other
\* refresh is under way.
C36_ReturnedTokenHasSixtySecondsLeft ==
    /\ [](\A c \in FsCallers :
             fsCallers[c].pc = "returned" => fsCallers[c].left >= RefreshMarginS)
    /\ [][feishu'.requests # feishu.requests =>
             /\ ~TokenFresh
             /\ \A c \in FsCallers : fsCallers[c].pc # "fetching"]_vars

====
